---- MODULE Spec2Model ----
(***************************************************************************)
(* A model of rdata's Python-to-R conversion layer (conversion/to_r.py),   *)
(* of its two wire codecs (io/xdr.py, io/ascii.py) and of the unparser's   *)
(* entry points (unparser/__init__.py).                                    *)
(*                                                                         *)
(* Conventions.  A Python optional is a sequence of length 0 (None) or 1.  *)
(* A Python exception is a result record with ok = FALSE and the name of   *)
(* the exception in err; the converter's reference table in that record is *)
(* the table as the exception left it.                                     *)
(***************************************************************************)
EXTENDS Integers, Sequences, FiniteSets, TLC

VARIABLES
    references,   \* ConverterFromPythonToR._references, in insertion order
    format_version, \* ConverterFromPythonToR.format_version
    result,       \* outcome of the last top-level call on the converter
    calls,        \* number of top-level calls made on this converter
    built,        \* outcome of the last direct call of build_r_object
    file_format,  \* "xdr" or "ascii": the wire format of file
    file,         \* contents of the file object a writer or a parser is on
    wrote,        \* what file was made from, and how it was damaged since
    parsed,       \* outcome of the last parser call on file, and its position
    output,       \* what unparsing the parsed data wrote
    destination,  \* the file at the path given to unparse_file
    sessions      \* converters of their own, one per concurrent call

convVars == <<references, format_version, result, calls>>
codecVars == <<file_format, file, wrote, parsed, output, destination>>

-----------------------------------------------------------------------------
(* Bounds of the model.                                                    *)

MaxCalls == 2
MaxLen == 2

-----------------------------------------------------------------------------
(* Object model: RObjectInfo and RObject as build_r_object fills them.     *)

NoneOpt == <<>>
Some(x) == <<x>>

\* CharFlags is an IntFlag: gp is modelled as the set of flags that are set.
GpZero == {}
GpAscii == {"ASCII"}

\* The assertion of build_r_object: a chained comparison a == b == c in
\* Python is (a == b) and (b == c).
RefArgsWrongNesting(r_type, reference_id, referenced_object) ==
    (((reference_id = 0) <=> (referenced_object = NoneOpt))
        <=> (r_type # "REF"))

RefArgsOk(r_type, reference_id, referenced_object) ==
    /\ ((reference_id = 0) <=> (referenced_object = NoneOpt))
    /\ ((referenced_object = NoneOpt) <=> (r_type # "REF"))

\* build_r_object, the part after the assertions.
\* build_r_object's node with the has_tag flag left unset
MkRObjectUntagged(r_type, value, is_object, attributes, tag, gp, reference) ==
    [ info |-> [ type |-> r_type,
                 object |-> is_object,
                 attributes |-> attributes # NoneOpt,
                 tag |-> FALSE,
                 gp |-> gp,
                 reference |-> reference[1] ],
      value |-> value,
      attributes |-> attributes,
      tag |-> tag,
      referenced_object |-> reference[2] ]

MkRObject(r_type, value, is_object, attributes, tag, gp, reference) ==
    [ info |-> [ type |-> r_type,
                 object |-> is_object,
                 attributes |-> attributes # NoneOpt,
                 tag |-> tag # NoneOpt,
                 gp |-> gp,
                 reference |-> reference[1] ],
      value |-> value,
      attributes |-> attributes,
      tag |-> tag,
      referenced_object |-> reference[2] ]

NoReference == <<0, NoneOpt>>

\* build_r_object as a partial function: ok = FALSE is the AssertionError.
build_r_object(r_type, value, is_object, attributes, tag, gp, reference) ==
    IF RefArgsOk(r_type, reference[1], reference[2])
    THEN [ ok |-> TRUE, err |-> "",
           node |-> Some(MkRObject(r_type, value, is_object, attributes,
                                   tag, gp, reference)) ]
    ELSE [ ok |-> FALSE, err |-> "AssertionError", node |-> NoneOpt ]

\* The calls of build_r_object with the default reference (0, None) and a
\* type that is not REF: the assertion holds, the node is returned.
Plain(r_type, value, is_object, attributes, tag, gp) ==
    build_r_object(r_type, value, is_object, attributes, tag, gp,
                   NoReference).node[1]

NilValue == Plain("NILVALUE", <<>>, FALSE, NoneOpt, NoneOpt, GpZero)

\* build_r_list on a non-empty list of entries; an entry is
\* [tag |-> optional node, car |-> node] (a bare value has tag = None).
RECURSIVE BuildList(_)
BuildList(data) ==
    LET head == data[1]
        tail == Tail(data)
        cdr == IF Len(tail) = 0 THEN NilValue ELSE BuildList(tail)
    IN Plain("LIST", <<head.car, cdr>>, FALSE, NoneOpt, head.tag, GpZero)

\* build_r_list that returns the nil node for an empty list
build_r_list_or_nil(data) ==
    IF Len(data) = 0
    THEN [ ok |-> TRUE, err |-> "", node |-> Some(NilValue) ]
    ELSE [ ok |-> TRUE, err |-> "", node |-> Some(BuildList(data)) ]

build_r_list(data) ==
    IF Len(data) = 0
    THEN [ ok |-> FALSE, err |-> "ValueError", node |-> NoneOpt ]
    ELSE [ ok |-> TRUE, err |-> "", node |-> Some(BuildList(data)) ]

\* build_r_char for a str whose bytes are all printable (every name and
\* string of the model is): gp is CharFlags.ASCII.
build_r_char(s) == Plain("CHAR", <<s>>, FALSE, NoneOpt, NoneOpt, GpAscii)

-----------------------------------------------------------------------------
(* ConverterFromPythonToR.  self is [references, format_version]; a call   *)
(* returns [ok, err, self, node], self being the converter as the call     *)
(* left it, also when it raised.                                           *)

\* -2**31, written so that no intermediate value leaves the 32-bit range
R_INT_NA == (-2147483647) - 1
R_MINIMUM_VERSION_WITH_ALTREP == 3
R_MINIMUM_VERSION_WITH_ENCODING == 3
RObjectType_INT_value == 13

Ok(self, node) == [ ok |-> TRUE, err |-> "", self |-> self, node |-> Some(node) ]
Raise(self, err) == [ ok |-> FALSE, err |-> err, self |-> self, node |-> NoneOpt ]

\* ConverterFromPythonToR.__init__: the table holds the entry None: (0, None).
InitialReferences == << [ key |-> NoneOpt, id |-> 0, node |-> NoneOpt ] >>

\* name in self._references
InReferences(refs, name) == \E i \in 1..Len(refs) : refs[i].key = Some(name)

\* self._references[name]
LookupReference(refs, name) ==
    LET i == CHOOSE j \in 1..Len(refs) : refs[j].key = Some(name)
    IN <<refs[i].id, refs[i].node>>

\* self._references[name] = (len(self._references), r_object), name not a key
NextIdOffByOne(refs) == Len(refs) + 1

NextId(refs) == Len(refs)

AddReference(refs, name, r_object) ==
    Append(refs, [ key |-> Some(name), id |-> NextId(refs),
                   node |-> Some(r_object) ])

\* Arrays (numpy): [kind "ndarray", dtype, ndim, data, mask]; data of a
\* 2-dimensional array is its sequence of rows.
NoMask(data) == [ i \in 1..Len(data) |-> FALSE ]
Array1(dtype, data) ==
    [ kind |-> "ndarray", dtype |-> dtype, ndim |-> 1, data |-> data,
      mask |-> NoMask(data) ]
Array0(dtype, x) ==
    [ kind |-> "ndarray", dtype |-> dtype, ndim |-> 0, data |-> <<x>>,
      mask |-> <<FALSE>> ]
Masked1(dtype, data, mask) ==
    [ kind |-> "ndarray", dtype |-> dtype, ndim |-> 1, data |-> data,
      mask |-> mask ]

\* np.ravel(data, order="F") of a 2-dimensional array given by rows
RavelF(rows) ==
    LET nr == Len(rows)
        nc == IF nr = 0 THEN 0 ELSE Len(rows[1])
    IN [ k \in 1..(nr * nc) |-> rows[((k - 1) % nr) + 1][((k - 1) \div nr) + 1] ]

Shape2(rows) == << Len(rows), IF Len(rows) = 0 THEN 0 ELSE Len(rows[1]) >>

\* len(range(start, stop, step)) and list(range(start, stop, step))
RangeLen(start, stop, step) ==
    IF step > 0
    THEN (IF stop > start THEN ((stop - start - 1) \div step) + 1 ELSE 0)
    ELSE (IF stop < start THEN ((start - stop - 1) \div (0 - step)) + 1 ELSE 0)

RangeValues(start, stop, step) ==
    [ i \in 1..RangeLen(start, stop, step) |-> start + (i - 1) * step ]

NumericType(dtype) ==
    CASE dtype = "b" -> "LGL"
      [] dtype = "i" -> "INT"
      [] dtype = "f" -> "REAL"
      [] dtype = "c" -> "CPLX"

\* The element loop of an object array (dtype kind "O").
RECURSIVE ObjectArrayChars(_)
ObjectArrayChars(els) ==
    IF Len(els) = 0 THEN [ ok |-> TRUE, chars |-> <<>> ]
    ELSE LET el == els[1]
             rest == ObjectArrayChars(Tail(els))
         IN IF el.t = "other" THEN [ ok |-> FALSE, chars |-> <<>> ]
            ELSE IF ~rest.ok THEN rest
            ELSE [ ok |-> TRUE,
                   chars |-> <<IF el.t = "none"
                               THEN Plain("CHAR", <<>>, FALSE, NoneOpt,
                                          NoneOpt, GpZero)
                               ELSE build_r_char(el.s)>> \o rest.chars ]

\* Python data handed to the converter, by kind:
\*   none | int | str | bytes | other      scalars ("other": no constructor)
\*   list  items                           list or tuple
\*   dict  entries <<[key |-> [isstr, name], value]>>   in insertion order
\*   expr  elements | lang elements nattrs  RExpression, RLanguage
\*   ndarray | range | categorical | dataframe | index
StrKey(name) == [ isstr |-> TRUE, name |-> name ]
Entry(name, value) == [ key |-> StrKey(name), value |-> value ]

\* Every call of a converter method is written once, as the argument of the
\* operator that continues with its result: P(self, f(self, x)) is
\* "r = f(x); then P".
RECURSIVE convert_to_r_object(_, _)
RECURSIVE ConvertEach(_, _)
RECURSIVE ConvertEntries(_, _)
RECURSIVE ConvertSymbols(_, _)

\* A list under construction: [ok, err, self, nodes]
EmptyNodes(self) == [ ok |-> TRUE, err |-> "", self |-> self, nodes |-> <<>> ]
FailNodes(r) == [ ok |-> FALSE, err |-> r.err, self |-> r.self, nodes |-> <<>> ]
Cons(x, t) == [ t EXCEPT !.nodes = IF t.ok THEN <<x>> \o @ ELSE @ ]

\* "Create a new symbol" and "Add to reference list" of convert_to_r_sym
NewSymbol(self, name, r_value) ==
    LET r_object == Plain("SYM", <<r_value.node[1]>>, FALSE, NoneOpt, NoneOpt,
                          GpZero)
    IN Ok([ self EXCEPT !.references = AddReference(@, name, r_object) ],
          r_object)

\* "Reference to existing symbol if exists" of convert_to_r_sym
ExistingSymbol(self, b) == IF b.ok THEN Ok(self, b.node[1]) ELSE Raise(self, b.err)

\* convert_to_r_sym with the lookup of the reference table left out
convert_to_r_sym_always_literal(self, name) ==
    NewSymbol(self, name,
              convert_to_r_object(self, [ kind |-> "bytes", s |-> name ]))

convert_to_r_sym(self, name) ==
    IF InReferences(self.references, name)
    THEN ExistingSymbol(self,
            build_r_object("REF", <<>>, FALSE, NoneOpt, NoneOpt, GpZero,
                           LookupReference(self.references, name)))
    ELSE NewSymbol(self, name,
            convert_to_r_object(self, [ kind |-> "bytes", s |-> name ]))

\* [self.convert_to_r_object(el) for el in items]
EachHead(h, rest) ==
    IF ~h.ok THEN FailNodes(h)
    ELSE Cons(h.node[1], ConvertEach(h.self, rest))

ConvertEach(self, items) ==
    IF Len(items) = 0 THEN EmptyNodes(self)
    ELSE EachHead(convert_to_r_object(self, items[1]), Tail(items))

\* [self.convert_to_r_sym(el) for el in names]
SymbolsHead(h, rest) ==
    IF ~h.ok THEN FailNodes(h)
    ELSE Cons(h.node[1], ConvertSymbols(h.self, rest))

ConvertSymbols(self, names) ==
    IF Len(names) = 0 THEN EmptyNodes(self)
    ELSE SymbolsHead(convert_to_r_sym(self, names[1]), Tail(names))

\* The loop of convert_to_r_attributes: per item, the key's symbol, then the
\* value.
EntryValue(k, v, entries) ==
    IF ~v.ok THEN FailNodes(v)
    ELSE Cons([ tag |-> k.node, car |-> v.node[1] ],
              ConvertEntries(v.self, Tail(entries)))

EntryKey(k, entries) ==
    IF ~k.ok THEN FailNodes(k)
    ELSE EntryValue(k, convert_to_r_object(k.self, entries[1].value), entries)

ConvertEntries(self, entries) ==
    IF Len(entries) = 0 THEN EmptyNodes(self)
    ELSE EntryKey(convert_to_r_sym(self, entries[1].key.name), entries)

FromList(self, l) == IF l.ok THEN Ok(self, l.node[1]) ELSE Raise(self, l.err)

AttributesList(converted) ==
    IF ~converted.ok THEN Raise(converted.self, converted.err)
    ELSE FromList(converted.self, build_r_list(converted.nodes))

convert_to_r_attributes(self, entries) ==
    AttributesList(ConvertEntries(self, entries))

\* pandas.Categorical [kind "categorical", codes, categories]
\* the node of a categorical built without is_object=True
CategoricalObjectUnflagged(data, r_attributes) ==
    IF ~r_attributes.ok THEN r_attributes
    ELSE Ok(r_attributes.self,
            Plain("INT",
                  [ data |-> [ i \in 1..Len(data.codes) |-> data.codes[i] + 1 ],
                    mask |-> NoMask(data.codes) ],
                  FALSE, r_attributes.node, NoneOpt, GpZero))

CategoricalObject(data, r_attributes) ==
    IF ~r_attributes.ok THEN r_attributes
    ELSE Ok(r_attributes.self,
            Plain("INT",
                  [ data |-> [ i \in 1..Len(data.codes) |-> data.codes[i] + 1 ],
                    mask |-> NoMask(data.codes) ],
                  TRUE, r_attributes.node, NoneOpt, GpZero))

categorical_constructor(self, data) ==
    CategoricalObject(data,
        convert_to_r_attributes(self, <<
            Entry("levels", Array1("O", [ i \in 1..Len(data.categories) |->
                               [ t |-> "str", s |-> data.categories[i] ] ])),
            Entry("class", [ kind |-> "str", s |-> "factor" ]) >>))

\* pandas.RangeIndex [kind "range", start, stop, step]
\* the step test of rangeindex_constructor without its format version test
RangeIsCompactAnyVersion(self, data) == ~(data.step # 1)

RangeIsCompact(self, data) ==
    /\ ~(self.format_version < R_MINIMUM_VERSION_WITH_ALTREP)
    /\ ~(data.step # 1)

RangePlain(self, data) ==
    LET values == RangeValues(data.start, data.stop, data.step)
    IN Ok(self, Plain("INT", [ data |-> values, mask |-> NoMask(values) ],
                      FALSE, NoneOpt, NoneOpt, GpZero))

\* r_value of the ALTREP node: the two symbols, then the three objects
AltrepObject(syms, objs) ==
    Ok(objs.self,
       Plain("ALTREP",
             << build_r_list(<< [ tag |-> NoneOpt, car |-> syms.nodes[1] ],
                                [ tag |-> NoneOpt, car |-> syms.nodes[2] ],
                                [ tag |-> NoneOpt, car |-> objs.nodes[1] ] >>
                            ).node[1],
                objs.nodes[2], objs.nodes[3] >>,
             FALSE, NoneOpt, NoneOpt, GpZero))

AltrepState(data, syms) ==
    AltrepObject(syms,
        ConvertEach(syms.self,
            << [ kind |-> "int", v |-> RObjectType_INT_value ],
               Array1("f", << RangeLen(data.start, data.stop, data.step),
                              data.start, data.step >>),
               [ kind |-> "none" ] >>))

\* rangeindex_constructor without the test of the step
rangeindex_constructor_any_step(self, data) ==
    IF ~(self.format_version < R_MINIMUM_VERSION_WITH_ALTREP)
    THEN AltrepState(data,
                     ConvertSymbols(self, << "compact_intseq", "base" >>))
    ELSE RangePlain(self, data)

rangeindex_constructor(self, data) ==
    IF RangeIsCompact(self, data)
    THEN AltrepState(data,
                     ConvertSymbols(self, << "compact_intseq", "base" >>))
    ELSE RangePlain(self, data)

\* pandas.DataFrame [kind "dataframe", columns <<[name, array]>>, nrows,
\* index]; a column's array is a categorical or a numpy array.
RowNames(data) ==
    LET index == data.index
    IN IF index.kind = "range"
       THEN (IF index.start = 1 /\ index.stop = data.nrows + 1
                                /\ index.step = 1
             THEN Masked1("i", << R_INT_NA, 0 - data.nrows >>,
                          << TRUE, FALSE >>)
             ELSE index)
       ELSE Array1(index.dtype, index.values)

DataFrameObject(r_value, r_attributes) ==
    IF ~r_attributes.ok THEN r_attributes
    ELSE Ok(r_attributes.self,
            Plain("VEC", r_value.nodes, TRUE, r_attributes.node, NoneOpt,
                  GpZero))

DataFrameAttributes(data, r_value) ==
    IF ~r_value.ok THEN Raise(r_value.self, r_value.err)
    ELSE IF data.index.kind = "index" /\ data.index.dtype \notin {"O", "i"}
    THEN Raise(r_value.self, "NotImplementedError")
    ELSE DataFrameObject(r_value,
            convert_to_r_attributes(r_value.self, <<
                Entry("names", Array1("U", [ i \in 1..Len(data.columns) |->
                                              data.columns[i].name ])),
                Entry("class", [ kind |-> "str", s |-> "data.frame" ]),
                Entry("row.names", RowNames(data)) >>))

dataframe_constructor(self, data) ==
    DataFrameAttributes(data,
        ConvertEach(self, [ i \in 1..Len(data.columns) |->
                              data.columns[i].array ]))

\* The branches of convert_to_r_object leave [ok, err, self, returned,
\* r_type, r_value, attributes]: returned is the node of a branch that
\* returns at once, the rest is what the common tail builds the node from.
Prepared(self, r_type, r_value, attributes) ==
    [ ok |-> TRUE, err |-> "", self |-> self, returned |-> NoneOpt,
      r_type |-> r_type, r_value |-> r_value, attributes |-> attributes ]

Raised(self, err) ==
    [ ok |-> FALSE, err |-> err, self |-> self, returned |-> NoneOpt,
      r_type |-> "", r_value |-> <<>>, attributes |-> NoneOpt ]

ReturnedAtOnce(r) ==
    [ ok |-> r.ok, err |-> r.err, self |-> r.self, returned |-> r.node,
      r_type |-> "", r_value |-> <<>>, attributes |-> NoneOpt ]

\* RExpression, list, tuple and dict: the elements converted in order
Elements(data) ==
    CASE data.kind = "expr" -> data.elements
      [] data.kind = "list" -> data.items
      [] data.kind = "dict" ->
            [ i \in 1..Len(data.entries) |-> data.entries[i].value ]

VectorBranch(data, r_value) ==
    IF ~r_value.ok THEN Raised(r_value.self, r_value.err)
    ELSE IF data.kind = "expr"
    THEN Prepared(r_value.self, "EXPR", r_value.nodes, NoneOpt)
    ELSE IF data.kind = "list"
    THEN Prepared(r_value.self, "VEC", r_value.nodes, NoneOpt)
    ELSE IF \E i \in 1..Len(data.entries) : ~data.entries[i].key.isstr
    THEN Raised(r_value.self, "ValueError")
    ELSE Prepared(r_value.self, "VEC", r_value.nodes,
                  Some(<< Entry("names",
                            Array1("U", [ i \in 1..Len(data.entries) |->
                                          data.entries[i].key.name ])) >>))

\* RLanguage
LanguageRest(data, symbols, rest) ==
    IF ~rest.ok THEN Raised(symbols.self, rest.err)
    ELSE IF data.nattrs > 0 THEN Raised(symbols.self, "NotImplementedError")
    ELSE Prepared(symbols.self, "LANG", << symbols.nodes[1], rest.node[1] >>,
                  NoneOpt)

LanguageBranch(data, symbols) ==
    IF ~symbols.ok THEN Raised(symbols.self, symbols.err)
    ELSE IF Len(symbols.nodes) = 0 THEN Raised(symbols.self, "IndexError")
    ELSE LanguageRest(data, symbols,
            build_r_list([ i \in 1..(Len(symbols.nodes) - 1) |->
                             [ tag |-> NoneOpt, car |-> symbols.nodes[i + 1] ] ]))

\* np.ndarray
ObjectArray(self, chars) ==
    IF chars.ok THEN Prepared(self, "STR", chars.chars, NoneOpt)
    ELSE Raised(self, "NotImplementedError")

ArrayBranch(self, data) ==
    IF data.dtype = "O" THEN ObjectArray(self, ObjectArrayChars(data.data))
    ELSE IF data.dtype = "S"
    THEN (IF Len(data.data) = 1
          THEN ReturnedAtOnce(Ok(self, build_r_char(data.data[1])))
          ELSE Raised(self, "AssertionError"))
    ELSE IF data.dtype = "U"
    THEN Prepared(self, "STR",
                  [ i \in 1..Len(data.data) |-> build_r_char(data.data[i]) ],
                  NoneOpt)
    ELSE IF data.ndim = 2
    THEN Prepared(self, NumericType(data.dtype),
                  [ data |-> RavelF(data.data),
                    mask |-> NoMask(RavelF(data.data)) ],
                  Some(<< Entry("dim", Array1("i", Shape2(data.data))) >>))
    ELSE Prepared(self, NumericType(data.dtype),
                  [ data |-> data.data, mask |-> data.mask ], NoneOpt)

\* bool, int, float, complex, str, bytes: np.array(data)
ScalarArray(data) ==
    CASE data.kind = "int" -> Array0("i", data.v)
      [] data.kind = "str" -> Array0("U", data.s)
      [] data.kind = "bytes" -> Array0("S", data.s)

\* the loop over constructor_dict (DEFAULT_CLASS_MAP)
Constructed(self, data) ==
    CASE data.kind = "categorical" -> categorical_constructor(self, data)
      [] data.kind = "dataframe" -> dataframe_constructor(self, data)
      [] data.kind = "range" -> rangeindex_constructor(self, data)

Branch(self, data) ==
    CASE data.kind = "none" -> Prepared(self, "NILVALUE", <<>>, NoneOpt)
      [] data.kind \in {"expr", "list", "dict"} ->
            VectorBranch(data, ConvertEach(self, Elements(data)))
      [] data.kind = "lang" ->
            LanguageBranch(data, ConvertSymbols(self, data.elements))
      [] data.kind = "ndarray" -> ArrayBranch(self, data)
      [] data.kind \in {"int", "str", "bytes"} ->
            ReturnedAtOnce(convert_to_r_object(self, ScalarArray(data)))
      [] data.kind \in {"categorical", "dataframe", "range"} ->
            ReturnedAtOnce(Constructed(self, data))
      [] OTHER -> Raised(self, "NotImplementedError")

\* is_object = "class" in attributes
HasClassKey(attributes) ==
    \E i \in 1..Len(attributes) : attributes[i].key.name = "class"

Attributed(p, r_attributes) ==
    IF ~r_attributes.ok THEN r_attributes
    ELSE Ok(r_attributes.self,
            Plain(p.r_type, p.r_value, HasClassKey(p.attributes[1]),
                  r_attributes.node, NoneOpt, GpZero))

\* The tail of convert_to_r_object: attributes, then build_r_object.
Finish(p) ==
    IF ~p.ok THEN Raise(p.self, p.err)
    ELSE IF p.returned # NoneOpt THEN Ok(p.self, p.returned[1])
    ELSE IF p.attributes # NoneOpt
    THEN Attributed(p, convert_to_r_attributes(p.self, p.attributes[1]))
    ELSE Ok(p.self, Plain(p.r_type, p.r_value, FALSE, NoneOpt, NoneOpt, GpZero))

convert_to_r_object(self, data) == Finish(Branch(self, data))

R_MINIMUM_VERSION_2 == 131840
R_MINIMUM_VERSION_3 == 197888
DEFAULT_R_VERSION_SERIALIZED == 262657

\* R_MINIMUM_VERSIONS[format_version]
R_MINIMUM_VERSIONS(fv) ==
    IF fv = 2 THEN R_MINIMUM_VERSION_2 ELSE R_MINIMUM_VERSION_3

\* RVersions and RExtraInfo of convert_to_r_data
DataResult(self, r_object) ==
    [ ok |-> r_object.ok, err |-> r_object.err, self |-> r_object.self,
      node |-> r_object.node,
      versions |->
         IF r_object.ok
         THEN Some([ format |-> self.format_version,
                     serialized |-> DEFAULT_R_VERSION_SERIALIZED,
                     minimum |-> R_MINIMUM_VERSIONS(self.format_version) ])
         ELSE NoneOpt,
      extra |->
         IF r_object.ok
         THEN Some([ encoding |->
                       IF self.format_version
                             >= R_MINIMUM_VERSION_WITH_ENCODING
                       THEN Some("UTF-8") ELSE NoneOpt ])
         ELSE NoneOpt ]

FileObject(self, data, file_type) ==
    IF file_type = "rda"
    THEN (IF data.kind # "dict" THEN Raise(self, "TypeError")
          ELSE IF \E i \in 1..Len(data.entries) : ~data.entries[i].key.isstr
          THEN Raise(self, "ValueError")
          ELSE convert_to_r_attributes(self, data.entries))
    ELSE convert_to_r_object(self, data)

convert_to_r_data(self, data, file_type) ==
    DataResult(self, FileObject(self, data, file_type))

-----------------------------------------------------------------------------
(* Inputs of the model.                                                    *)

PyNone == [ kind |-> "none" ]
PyInt(v) == [ kind |-> "int", v |-> v ]
PyStr(s) == [ kind |-> "str", s |-> s ]
PyOther == [ kind |-> "other" ]
PyList(items) == [ kind |-> "list", items |-> items ]
PyDict(entries) == [ kind |-> "dict", entries |-> entries ]
RExpression(elements) == [ kind |-> "expr", elements |-> elements ]
RLanguage(elements, nattrs) ==
    [ kind |-> "lang", elements |-> elements, nattrs |-> nattrs ]
RangeIndex(start, stop, step) ==
    [ kind |-> "range", start |-> start, stop |-> stop, step |-> step ]
Categorical(codes, categories) ==
    [ kind |-> "categorical", codes |-> codes, categories |-> categories ]
Index(dtype, values) == [ kind |-> "index", dtype |-> dtype, values |-> values ]
DataFrame(columns, nrows, index) ==
    [ kind |-> "dataframe", columns |-> columns, nrows |-> nrows,
      index |-> index ]
Array2(dtype, rows) ==
    [ kind |-> "ndarray", dtype |-> dtype, ndim |-> 2, data |-> rows,
      mask |-> <<>> ]

SeqsUpTo(S, n) == UNION { [ 1..k -> S ] : k \in 0..n }
DistinctSeqsUpTo(S, n) ==
    { q \in SeqsUpTo(S, n) : \A i, j \in 1..Len(q) : i # j => q[i] # q[j] }

RECURSIVE SetToSeq(_)
SetToSeq(S) ==
    IF S = {} THEN <<>>
    ELSE LET x == CHOOSE y \in S : TRUE IN <<x>> \o SetToSeq(S \ {x})

\* The input families are sequences: their members are records of different
\* shapes, which are never compared with each other.
SymbolNames == { "names", "class", "x" }

Languages ==
    << RLanguage(<<"f", "x">>, 0), RLanguage(<<"names", "x", "names">>, 0),
       RLanguage(<<"f">>, 0), RLanguage(<<"x", "f">>, 1), RLanguage(<<>>, 0) >>

Leaves ==
    << PyNone, PyInt(1), PyStr("a"), PyOther,
       Array2("i", << <<1, 2>>, <<3, 4>> >>),
       Masked1("i", <<1, R_INT_NA>>, <<FALSE, TRUE>>),
       Array1("O", << [ t |-> "str", s |-> "a" ], [ t |-> "none", s |-> "" ] >>),
       Array1("O", << [ t |-> "other", s |-> "" ] >>),
       RangeIndex(1, 4, 1), RangeIndex(0, 4, 2), RangeIndex(3, 3, 1),
       Categorical(<<0, 1, 0>>, <<"u", "v">>) >>

Items == << PyDict(<< Entry("a", PyNone) >>), RangeIndex(1, 4, 1) >>

ItemSeqs == SetToSeq(SeqsUpTo(1..Len(Items), MaxLen))

Lists ==
    [ n \in 1..Len(ItemSeqs) |->
        PyList([ i \in 1..Len(ItemSeqs[n]) |-> Items[ItemSeqs[n][i]] ]) ]

Expressions == << RExpression(<<>>), RExpression(<< PyInt(1), PyStr("a") >>) >>

\* Dictionary items: a key (the last one is not a str) with its value.
KeyedItems ==
    << [ key |-> StrKey("a"), value |-> PyDict(<< Entry("b", PyInt(1)) >>) ],
       [ key |-> StrKey("class"), value |-> PyStr("c") ],
       [ key |-> [ isstr |-> FALSE, name |-> "1" ],
         value |-> RLanguage(<<"f", "x">>, 0) ] >>

KeyedSeqs == SetToSeq(DistinctSeqsUpTo(1..Len(KeyedItems), MaxLen))

Dicts ==
    [ n \in 1..Len(KeyedSeqs) |->
        PyDict([ i \in 1..Len(KeyedSeqs[n]) |-> KeyedItems[KeyedSeqs[n][i]] ]) ]

Indexes ==
    << RangeIndex(1, 3, 1), RangeIndex(0, 2, 1), RangeIndex(0, 4, 2),
       Index("O", << [ t |-> "str", s |-> "r1" ], [ t |-> "str", s |-> "r2" ] >>),
       Index("f", <<1, 2>>) >>

DataFrames ==
    [ n \in 1..Len(Indexes) |->
        DataFrame(<< [ name |-> "a", array |-> Array1("i", <<1, 2>>) ],
                     [ name |-> "b",
                       array |-> Categorical(<<0, 1>>, <<"u">>) ] >>,
                  2, Indexes[n]) ]

DataInputs == Leaves \o Languages \o Lists \o Expressions \o Dicts \o DataFrames

\* Inputs of convert_to_r_data
FileInputs == Dicts \o DataFrames \o << PyNone, RangeIndex(1, 4, 1) >>

-----------------------------------------------------------------------------
(* Actions: one per public operation of the conversion layer.              *)

Self == [ references |-> references, format_version |-> format_version ]

NoResult ==
    [ op |-> "none", arg |-> "", ok |-> TRUE, err |-> "", node |-> NoneOpt,
      versions |-> NoneOpt, extra |-> NoneOpt ]

NoBuilt == [ called |-> FALSE, op |-> "", r_type |-> "",
             reference |-> NoReference,
             ok |-> TRUE, err |-> "", node |-> NoneOpt ]

\* ConverterFromPythonToR(format_version=fv)
NewConverter(fv) ==
    /\ references' = InitialReferences
    /\ format_version' = fv
    /\ result' = NoResult
    /\ calls' = 0
    /\ UNCHANGED <<built, codecVars, sessions>>

Returned(op, arg, r) ==
    /\ references' = r.self.references
    /\ result' = [ op |-> op, arg |-> arg, ok |-> r.ok, err |-> r.err,
                   node |-> r.node, versions |-> NoneOpt, extra |-> NoneOpt ]
    /\ calls' = calls + 1
    /\ UNCHANGED <<format_version, built, codecVars, sessions>>

CallConvertToRSym(name) ==
    /\ calls < MaxCalls
    /\ Returned("convert_to_r_sym", name, convert_to_r_sym(Self, name))

CallConvertToRObject(data) ==
    /\ calls < MaxCalls
    /\ Returned("convert_to_r_object", "", convert_to_r_object(Self, data))

CallConvertToRAttributes(entries) ==
    /\ calls < MaxCalls
    /\ Returned("convert_to_r_attributes", "",
                convert_to_r_attributes(Self, entries))

ReturnedData(file_type, r) ==
    /\ references' = r.self.references
    /\ result' = [ op |-> "convert_to_r_data", arg |-> file_type,
                   ok |-> r.ok, err |-> r.err, node |-> r.node,
                   versions |-> r.versions, extra |-> r.extra ]
    /\ calls' = calls + 1
    /\ UNCHANGED <<format_version, built, codecVars, sessions>>

CallConvertToRData(data, file_type) ==
    /\ calls < MaxCalls
    /\ ReturnedData(file_type, convert_to_r_data(Self, data, file_type))

Init ==
    /\ references = InitialReferences
    /\ format_version \in {2, 3}
    /\ result = NoResult
    /\ calls = 0
    /\ built = NoBuilt
    /\ file_format = "xdr"
    /\ file = <<>>
    /\ wrote = [ kind |-> "", value |-> NoneOpt, cut |-> 0, trailing |-> 0 ]
    /\ parsed = [ op |-> "", start |-> 0, ok |-> TRUE, err |-> "",
                  value |-> NoneOpt, pos |-> 0 ]
    /\ output = [ done |-> FALSE, ok |-> TRUE, err |-> "", bytes |-> <<>> ]
    /\ destination = [ exists |-> FALSE, compression |-> "", bytes |-> <<>> ]
    /\ sessions = <<>>

Next ==
    \/ \E fv \in {2, 3} : NewConverter(fv)
    \/ \E name \in SymbolNames : CallConvertToRSym(name)
    \/ \E i \in 1..Len(DataInputs) : CallConvertToRObject(DataInputs[i])
    \/ \E i \in 1..Len(Dicts) : CallConvertToRAttributes(Dicts[i].entries)
    \/ \E i \in 1..Len(FileInputs), file_type \in {"rds", "rda"} :
            CallConvertToRData(FileInputs[i], file_type)

vars == <<convVars, built, codecVars, sessions>>

Spec == Init /\ [][Next]_vars

-----------------------------------------------------------------------------
(* build_r_object and build_r_list as pure functions: the arguments are    *)
(* drawn from bounded sets, the action applies the function.               *)

SomeSymbol == Plain("SYM", << build_r_char("names") >>, FALSE, NoneOpt, NoneOpt,
                    GpZero)
SomeList == BuildList(<< [ tag |-> Some(SomeSymbol), car |-> NilValue ] >>)

\* (reference_id, referenced_object) arguments
ReferenceArgs ==
    << <<0, NoneOpt>>, <<1, NoneOpt>>, <<0, Some(SomeSymbol)>>,
       <<1, Some(SomeSymbol)>>, <<2, Some(SomeSymbol)>> >>

TypeArgs == { "REF", "SYM", "NILVALUE", "LIST", "INT" }

CallBuildRObject(r_type, is_object, attributes, tag, reference) ==
    /\ LET b == build_r_object(r_type, <<>>, is_object, attributes, tag,
                               GpZero, reference)
       IN built' = [ called |-> TRUE, op |-> "build_r_object",
                     r_type |-> r_type,
                     is_object |-> is_object, attributes |-> attributes,
                     tag |-> tag, reference |-> reference,
                     ok |-> b.ok, err |-> b.err, node |-> b.node ]
    /\ UNCHANGED <<convVars, codecVars, sessions>>

\* build_r_list(data); an entry of data is a value or a (tag, value) pair
MaxEntries == 3

\* the shape of an entry: a bare value or a pair, and which node the value is
ListEntries == { "value", "pair" } \X { "NILVALUE", "SYM" }

ListArgs == SeqsUpTo(ListEntries, MaxEntries)

EntryOf(shape) ==
    [ tag |-> IF shape[1] = "pair" THEN Some(SomeSymbol) ELSE NoneOpt,
      car |-> IF shape[2] = "SYM" THEN SomeSymbol ELSE NilValue ]

DataOf(shapes) == [ i \in DOMAIN shapes |-> EntryOf(shapes[i]) ]

BuiltList(data, b) ==
    built' = [ called |-> FALSE, op |-> "build_r_list", data |-> data,
               ok |-> b.ok, err |-> b.err, node |-> b.node ]

CallBuildRList(shapes) ==
    /\ BuiltList(DataOf(shapes), build_r_list(DataOf(shapes)))
    /\ UNCHANGED <<convVars, codecVars, sessions>>

\* the two callers of build_r_list in the converter, on a new converter
AttributesArgs == { <<>>, << Entry("a", PyNone) >> }
LanguageArgs == { << "f" >>, << "f", "x" >> }

BuildAttributes(entries) ==
    /\ calls = 0
    /\ Returned("convert_to_r_attributes", entries,
                convert_to_r_attributes(Self, entries))

BuildLanguage(elements) ==
    /\ calls = 0
    /\ Returned("convert_to_r_object", elements,
                convert_to_r_object(Self, RLanguage(elements, 0)))

InitBuild ==
    /\ references = InitialReferences
    /\ format_version = 3
    /\ result = NoResult
    /\ calls = 0
    /\ built = NoBuilt
    /\ file_format = "xdr"
    /\ file = <<>>
    /\ wrote = [ kind |-> "", value |-> NoneOpt, cut |-> 0, trailing |-> 0 ]
    /\ parsed = [ op |-> "", start |-> 0, ok |-> TRUE, err |-> "",
                  value |-> NoneOpt, pos |-> 0 ]
    /\ output = [ done |-> FALSE, ok |-> TRUE, err |-> "", bytes |-> <<>> ]
    /\ destination = [ exists |-> FALSE, compression |-> "", bytes |-> <<>> ]
    /\ sessions = <<>>

NextBuild ==
    \/ \E r_type \in TypeArgs, is_object \in BOOLEAN,
          a \in 0..1, t \in 0..1, i \in 1..Len(ReferenceArgs) :
            CallBuildRObject(r_type, is_object,
                             IF a = 1 THEN Some(SomeList) ELSE NoneOpt,
                             IF t = 1 THEN Some(SomeSymbol) ELSE NoneOpt,
                             ReferenceArgs[i])
    \/ \E shapes \in ListArgs : CallBuildRList(shapes)
    \/ \E entries \in AttributesArgs : BuildAttributes(entries)
    \/ \E elements \in LanguageArgs : BuildLanguage(elements)

SpecBuild == InitBuild /\ [][NextBuild]_vars

-----------------------------------------------------------------------------
(* Concurrent calls of convert_python_to_r_object(list, format_version=fv) *)
(* at most two at a time.  A call constructs a converter, converts the     *)
(* elements of its list one by one with it, then builds the vector; the    *)
(* calls interleave between any two of these steps.  A session is [fv,     *)
(* input, self, todo, nodes, ok, err, node].                               *)

\* ConverterFromPythonToR(format_version=fv): the converter of a call
FreshConverter(fv) ==
    [ references |-> InitialReferences, format_version |-> fv ]

\* every session would use the converter of the first one
FirstConverter(ss, i) == 1

\* the session whose converter session i works with: its own
OwnConverter(ss, i) == i

\* convert_python_to_r_object is called: the converter is constructed
StartSession(fv, items) ==
    /\ Len(sessions) < 2
    /\ sessions' = Append(sessions,
                          [ fv |-> fv, input |-> items,
                            self |-> FreshConverter(fv), todo |-> items,
                            nodes |-> <<>>, ok |-> TRUE, err |-> "",
                            node |-> NoneOpt ])
    /\ UNCHANGED <<convVars, built, codecVars>>

\* r = self.convert_to_r_object(el), el the next element of the list
Stepped(i, c, r) ==
    sessions' = [ sessions EXCEPT
                    ![c].self = r.self,
                    ![i].todo = Tail(@),
                    ![i].nodes = IF r.ok THEN @ \o r.node ELSE @,
                    ![i].ok = r.ok,
                    ![i].err = r.err ]

StepOf(i, c) ==
    Stepped(i, c, convert_to_r_object(sessions[c].self, Head(sessions[i].todo)))

SessionStep(i) ==
    /\ i \in DOMAIN sessions
    /\ sessions[i].ok /\ sessions[i].todo # <<>>
    /\ StepOf(i, OwnConverter(sessions, i))
    /\ UNCHANGED <<convVars, built, codecVars>>

\* the elements are converted: build_r_object(VEC, value=r_value)
SessionReturn(i) ==
    /\ i \in DOMAIN sessions
    /\ sessions[i].ok /\ sessions[i].todo = <<>>
    /\ sessions[i].node = NoneOpt
    /\ sessions' = [ sessions EXCEPT ![i].node =
                        Some(Plain("VEC", sessions[i].nodes, FALSE, NoneOpt,
                                   NoneOpt, GpZero)) ]
    /\ UNCHANGED <<convVars, built, codecVars>>

InitSessions ==
    /\ references = InitialReferences
    /\ format_version = 3
    /\ result = NoResult
    /\ calls = 0
    /\ built = NoBuilt
    /\ file_format = "xdr"
    /\ file = <<>>
    /\ wrote = [ kind |-> "", value |-> NoneOpt, cut |-> 0, trailing |-> 0 ]
    /\ parsed = [ op |-> "", start |-> 0, ok |-> TRUE, err |-> "",
                  value |-> NoneOpt, pos |-> 0 ]
    /\ output = [ done |-> FALSE, ok |-> TRUE, err |-> "", bytes |-> <<>> ]
    /\ destination = [ exists |-> FALSE, compression |-> "", bytes |-> <<>> ]
    /\ sessions = <<>>

NextSessions ==
    \/ \E fv \in {2, 3}, n \in 1..Len(Lists) :
            StartSession(fv, Lists[n].items)
    \/ \E i \in 1..2 : SessionStep(i)
    \/ \E i \in 1..2 : SessionReturn(i)

SpecSessions == InitSessions /\ [][NextSessions]_vars

-----------------------------------------------------------------------------
(* rangeindex_constructor on the ranges of a bounded grid, called once on  *)
(* a converter that is new or has interned the two symbols of the class    *)
(* descriptor before.                                                      *)

MaxRange == 2

RangeSteps == { -2, -1, 1, 2 }

Ranges ==
    { r \in ((0 - MaxRange)..MaxRange) \X ((0 - MaxRange)..(MaxRange + 1))
                \X RangeSteps : TRUE }

\* the table after convert_to_r_sym("compact_intseq"), convert_to_r_sym("base")
UsedReferences ==
    ConvertSymbols([ references |-> InitialReferences, format_version |-> 3 ],
                   << "compact_intseq", "base" >>).self.references

\* rangeindex_constructor(data, converter)
CallRangeIndexConstructor(data) ==
    /\ calls = 0
    /\ Returned("rangeindex_constructor", data,
                rangeindex_constructor(Self, data))

InitRange ==
    /\ references \in { InitialReferences, UsedReferences }
    /\ format_version \in {2, 3}
    /\ result = NoResult
    /\ calls = 0
    /\ built = NoBuilt
    /\ file_format = "xdr"
    /\ file = <<>>
    /\ wrote = [ kind |-> "", value |-> NoneOpt, cut |-> 0, trailing |-> 0 ]
    /\ parsed = [ op |-> "", start |-> 0, ok |-> TRUE, err |-> "",
                  value |-> NoneOpt, pos |-> 0 ]
    /\ output = [ done |-> FALSE, ok |-> TRUE, err |-> "", bytes |-> <<>> ]
    /\ destination = [ exists |-> FALSE, compression |-> "", bytes |-> <<>> ]
    /\ sessions = <<>>

NextRange ==
    /\ calls = 0
    /\ \E r \in Ranges :
          CallRangeIndexConstructor(RangeIndex(r[1], r[2], r[3]))

SpecRange == InitRange /\ [][NextRange]_vars

-----------------------------------------------------------------------------
(* The wire codecs (io/xdr.py, io/ascii.py).  A file is a sequence of      *)
(* bytes (xdr, a BinaryIO) or of character codes (ascii, a TextIO); a      *)
(* parser's position in it is the number of items it has consumed.  A      *)
(* primitive of a parser is a function of the file and the position that   *)
(* returns [ok, err, value, pos]; a primitive of a writer is the sequence  *)
(* it appends to the file.  A byte string is the sequence of its bytes;    *)
(* an integer array is [data, mask], mask all FALSE for a plain ndarray.   *)
(* An operator that continues with the result of a call takes the result   *)
(* as an argument.                                                         *)

LF == 10
Backslash == 92

Parsed(value, pos) ==
    [ ok |-> TRUE, err |-> "", value |-> value, pos |-> pos ]
ParseError(err, pos) ==
    [ ok |-> FALSE, err |-> err, value |-> NoneOpt, pos |-> pos ]

RECURSIVE Flatten(_)
Flatten(seqs) ==
    IF Len(seqs) = 0 THEN <<>> ELSE seqs[1] \o Flatten(Tail(seqs))

\* file.read(n): at most n items, fewer at the end of the file, the whole
\* rest when n is negative
Read(f, pos, n) ==
    SubSeq(f, pos + 1, IF n < 0 \/ n > Len(f) - pos THEN Len(f) ELSE pos + n)

\* four bytes, big-endian two's complement, and back
Int32Bytes(v) ==
    << (v \div 16777216) % 256, (v \div 65536) % 256, (v \div 256) % 256,
       v % 256 >>
Int32Value(b) ==
    (IF b[1] >= 128 THEN b[1] - 256 ELSE b[1]) * 16777216
        + b[2] * 65536 + b[3] * 256 + b[4]

\* np.frombuffer(buffer, '>i4'): raises unless the buffer is whole elements,
\* returns as many elements as the buffer holds
FromBuffer(buffer, pos) ==
    IF Len(buffer) % 4 # 0 THEN ParseError("ValueError", pos + Len(buffer))
    ELSE Parsed([ i \in 1..(Len(buffer) \div 4) |->
                     Int32Value(SubSeq(buffer, 4 * i - 3, 4 * i)) ],
                pos + Len(buffer))

\* ParserXDR._parse_array_values(np.int32, length): file.read(4 * length),
\* then np.frombuffer
ParserXDR_parse_array_values(f, pos, length) ==
    FromBuffer(IF length < 0 \/ length > (Len(f) - pos) \div 4
               THEN Read(f, pos, -1) ELSE Read(f, pos, 4 * length),
               pos)

\* int(array[0]), None when it is R_INT_NA
FirstOrNone(a) ==
    IF ~a.ok THEN a
    ELSE IF Len(a.value) = 0 THEN ParseError("IndexError", a.pos)
    ELSE IF a.value[1] = R_INT_NA THEN Parsed(NoneOpt, a.pos)
    ELSE Parsed(Some(a.value[1]), a.pos)

ParserXDR_parse_nullable_int(f, pos) ==
    FirstOrNone(ParserXDR_parse_array_values(f, pos, 1))

\* Parser.parse_int: a nullable int that must not be missing
RequireInt(r) ==
    IF r.ok /\ r.value = NoneOpt THEN ParseError("ValueError", r.pos) ELSE r

ParserXDR_parse_int(f, pos) == RequireInt(ParserXDR_parse_nullable_int(f, pos))

\* mask = data == R_INT_NA; data[mask] = fill_value
MaskedArray(values) ==
    [ data |-> [ i \in DOMAIN values |->
                    IF values[i] = R_INT_NA THEN 0 ELSE values[i] ],
      mask |-> [ i \in DOMAIN values |-> values[i] = R_INT_NA ] ]

MaskedResult(data) ==
    IF ~data.ok THEN data ELSE Parsed(MaskedArray(data.value), data.pos)

ArrayOfLengthXDR(f, length) ==
    IF ~length.ok THEN length
    ELSE MaskedResult(
            ParserXDR_parse_array_values(f, length.pos, length.value[1]))

ParserXDR_parse_nullable_int_array(f, pos) ==
    ArrayOfLengthXDR(f, ParserXDR_parse_int(f, pos))

ReadResult(items, pos) == Parsed(items, pos + Len(items))

ParserXDR_parse_string(f, pos, length) == ReadResult(Read(f, pos, length), pos)

\* the mask is dropped: the stored values are written as they are
flatten_ignoring_mask(array) == array.data

flatten_nullable_int_array(array) ==
    [ i \in DOMAIN array.data |->
        IF array.mask[i] THEN R_INT_NA ELSE array.data[i] ]

WriterXDR_write_magic == <<88, LF>>

WriterXDR_write_array_values(values) ==
    Flatten([ i \in DOMAIN values |-> Int32Bytes(values[i]) ])

\* write_nullable_int that writes 0 for a missing value
WriterXDR_write_nullable_int_zero(value) ==
    WriterXDR_write_array_values(<< IF value = NoneOpt THEN 0 ELSE value[1] >>)

WriterXDR_write_nullable_int(value) ==
    WriterXDR_write_array_values(
        << IF value = NoneOpt THEN R_INT_NA ELSE value[1] >>)

\* Writer.write_int
WriterXDR_write_int(value) == WriterXDR_write_nullable_int(Some(value))

WriterXDR_write_array(values) ==
    WriterXDR_write_int(Len(values)) \o WriterXDR_write_array_values(values)

WriterXDR_write_nullable_int_array(array) ==
    WriterXDR_write_array(flatten_nullable_int_array(array))

WriterXDR_write_string(value) == WriterXDR_write_int(Len(value)) \o value

\* A float64 array holds whole numbers below 2^20 in the model
\* ([length, start, step] of a compact sequence).  The 8 big-endian bytes of
\* such a value: sign, 11 bits of exponent 1023 + e, then the fraction, of
\* which the 20 leading bits can differ from zero.
DoubleExponent(m) == CHOOSE e \in 0..19 : 2 ^ e <= m /\ m < 2 ^ (e + 1)

DoubleBytesOf(sign, e, fraction) ==
    << sign * 128 + (1023 + e) \div 16,
       ((1023 + e) % 16) * 16 + (fraction \div 65536),
       (fraction \div 256) % 256, fraction % 256, 0, 0, 0, 0 >>

DoubleMagnitude(sign, m) ==
    DoubleBytesOf(sign, DoubleExponent(m),
                  (m - 2 ^ DoubleExponent(m)) * 2 ^ (20 - DoubleExponent(m)))

DoubleBytes(v) ==
    IF v = 0 THEN << 0, 0, 0, 0, 0, 0, 0, 0 >>
    ELSE IF v < 0 THEN DoubleMagnitude(1, 0 - v)
    ELSE DoubleMagnitude(0, v)

WriterXDR_write_double_array(values) ==
    WriterXDR_write_int(Len(values))
        \o Flatten([ i \in DOMAIN values |-> DoubleBytes(values[i]) ])

\* file.readline(): up to and including the next line feed, or the rest
LineEnd(f, pos) ==
    IF \E i \in (pos + 1)..Len(f) : f[i] = LF
    THEN CHOOSE i \in (pos + 1)..Len(f) :
            f[i] = LF /\ \A j \in (pos + 1)..(i - 1) : f[j] # LF
    ELSE Len(f)

\* raw[:-1]: the last character read is dropped, whatever it is
DropLast(raw, pos) ==
    [ line |-> SubSeq(raw, 1, Len(raw) - 1), pos |-> pos + Len(raw) ]

\* ParserASCII._readline
ParserASCII_readline(f, pos) ==
    DropLast(SubSeq(f, pos + 1, LineEnd(f, pos)), pos)

IsDigit(c) == c \in 48..57

\* the number whose decimal digits are s, negated: -2^31 has no positive
\* counterpart in 32 bits
RECURSIVE NegatedValue(_)
NegatedValue(s) ==
    IF Len(s) = 0 THEN 0
    ELSE 10 * NegatedValue(SubSeq(s, 1, Len(s) - 1)) - (s[Len(s)] - 48)

SignedValue(negative, negated, pos) ==
    Parsed(Some(IF negative THEN negated ELSE 0 - negated), pos)

\* int(text) for a text without white space or underscores: an optional
\* sign, then one decimal digit or more
IntOfDigits(negative, digits, pos) ==
    IF Len(digits) = 0 \/ \E i \in 1..Len(digits) : ~IsDigit(digits[i])
    THEN ParseError("ValueError", pos)
    ELSE SignedValue(negative, NegatedValue(digits), pos)

PyIntOfText(text, pos) ==
    IF Len(text) > 0 /\ text[1] \in {43, 45}
    THEN IntOfDigits(text[1] = 45, Tail(text), pos)
    ELSE IntOfDigits(FALSE, text, pos)

R_INT_NA_text == <<78, 65>>

NullableOfLine(r) ==
    IF r.line = R_INT_NA_text THEN Parsed(NoneOpt, r.pos)
    ELSE PyIntOfText(r.line, r.pos)

ParserASCII_parse_nullable_int(f, pos) ==
    NullableOfLine(ParserASCII_readline(f, pos))

ParserASCII_parse_int(f, pos) ==
    RequireInt(ParserASCII_parse_nullable_int(f, pos))

IsOctal(c) == c \in 48..55
HexDigits == << 48, 49, 50, 51, 52, 53, 54, 55, 56, 57, 97, 98, 99, 100, 101,
                102, 65, 66, 67, 68, 69, 70 >>
IsHex(c) == \E i \in 1..Len(HexDigits) : HexDigits[i] = c
HexValue(c) == IF c <= 57 THEN c - 48 ELSE IF c >= 97 THEN c - 87 ELSE c - 55

\* the escapes of one character that the unicode_escape codec knows
SimpleEscapes ==
    [ c \in {Backslash, 39, 34, 97, 98, 102, 110, 114, 116, 118} |->
        CASE c = 97 -> 7 [] c = 98 -> 8 [] c = 102 -> 12 [] c = 110 -> LF
          [] c = 114 -> 13 [] c = 116 -> 9 [] c = 118 -> 11 [] OTHER -> c ]

\* number of octal digits, at most 3, at the head of s
OctalRun(s) ==
    IF Len(s) >= 3 /\ IsOctal(s[1]) /\ IsOctal(s[2]) /\ IsOctal(s[3]) THEN 3
    ELSE IF Len(s) >= 2 /\ IsOctal(s[1]) /\ IsOctal(s[2]) THEN 2
    ELSE 1

RECURSIVE BaseValue(_, _)
BaseValue(s, base) ==
    IF Len(s) = 0 THEN 0
    ELSE base * BaseValue(SubSeq(s, 1, Len(s) - 1), base) + HexValue(s[Len(s)])

Token(out, used) == [ ok |-> TRUE, out |-> out, used |-> used ]
BadToken(used) == [ ok |-> FALSE, out |-> <<>>, used |-> used ]

OctalEscapeToken(s, run) == Token(<< BaseValue(SubSeq(s, 2, 1 + run), 8) >>, 1 + run)

\* \x takes 2 hexadecimal digits and \u 4; \U (8 digits) and \N{name} do
\* not fit in a line of the model and are rejected like a cut escape
HexEscapeToken(s, n) ==
    IF Len(s) >= 2 + n /\ \A i \in 3..(2 + n) : IsHex(s[i])
    THEN Token(<< BaseValue(SubSeq(s, 3, 2 + n), 16) >>, 2 + n)
    ELSE BadToken(Len(s))

\* the first character or escape sequence of a non-empty s, as
\* bytes.decode('unicode_escape') reads it
EscapeToken(s) ==
    IF s[1] # Backslash THEN Token(<< s[1] >>, 1)
    ELSE IF Len(s) = 1 THEN BadToken(1)
    ELSE IF s[2] = LF THEN Token(<<>>, 2)
    ELSE IF s[2] \in DOMAIN SimpleEscapes THEN Token(<< SimpleEscapes[s[2]] >>, 2)
    ELSE IF IsOctal(s[2]) THEN OctalEscapeToken(s, OctalRun(Tail(s)))
    ELSE IF s[2] = 120 THEN HexEscapeToken(s, 2)
    ELSE IF s[2] = 117 THEN HexEscapeToken(s, 4)
    ELSE IF s[2] \in {85, 78} THEN BadToken(Len(s))
    ELSE Token(<< Backslash, s[2] >>, 2)

RECURSIVE UnicodeEscapeDecode(_)
DecodedCons(out, rest) == [ ok |-> rest.ok, out |-> out \o rest.out ]
DecodeAfter(s, token) ==
    IF ~token.ok THEN [ ok |-> FALSE, out |-> <<>> ]
    ELSE DecodedCons(token.out,
                     UnicodeEscapeDecode(SubSeq(s, token.used + 1, Len(s))))
UnicodeEscapeDecode(s) ==
    IF Len(s) = 0 THEN [ ok |-> TRUE, out |-> <<>> ]
    ELSE DecodeAfter(s, EscapeToken(s))

\* .encode('latin1') of the decoded text
EncodeLatin1(decoded, pos) ==
    IF ~decoded.ok THEN ParseError("UnicodeDecodeError", pos)
    ELSE IF \E i \in 1..Len(decoded.out) : decoded.out[i] > 255
    THEN ParseError("UnicodeEncodeError", pos)
    ELSE Parsed(decoded.out, pos)

\* line.encode('ascii').decode('unicode_escape').encode('latin1')
StringOfLine(r) ==
    IF \E i \in 1..Len(r.line) : r.line[i] > 127
    THEN ParseError("UnicodeEncodeError", r.pos)
    ELSE EncodeLatin1(UnicodeEscapeDecode(r.line), r.pos)

\* ParserASCII.parse_string: length is not used
ParserASCII_parse_string(f, pos, length) ==
    StringOfLine(ParserASCII_readline(f, pos))

\* f'{value}' of an integer
RECURSIVE DigitsOfNegated(_)
DigitsOfNegated(v) ==
    LET d == (10 - (v % 10)) % 10
        q == (v + d) \div 10
    IN (IF q = 0 THEN <<>> ELSE DigitsOfNegated(q)) \o << 48 + d >>
Decimal(v) ==
    IF v < 0 THEN <<45>> \o DigitsOfNegated(v) ELSE DigitsOfNegated(0 - v)

WriterASCII_writeline(line) == line \o << LF >>

WriterASCII_write_magic == WriterASCII_writeline(<<65>>)

WriterASCII_write_nullable_int(value) ==
    IF value = NoneOpt THEN WriterASCII_writeline(R_INT_NA_text)
    ELSE WriterASCII_writeline(Decimal(value[1]))

\* Writer.write_int
WriterASCII_write_int(value) == WriterASCII_write_nullable_int(Some(value))

\* str(value) of a float that is a whole number: its digits, then ".0"
WriterASCII_write_double(value) ==
    WriterASCII_writeline(Decimal(value) \o << 46, 48 >>)

\* string.printable: digits, letters, punctuation, and ' \t\n\r\x0b\x0c'
IsPrintable(c) == c \in 32..126 \/ c \in 9..13

\* rf'\{byte:03o}'
OctalEscape(byte) ==
    << Backslash, 48 + (byte \div 64), 48 + ((byte \div 8) % 8),
       48 + (byte % 8) >>

WriterASCII_write_string(value) ==
    WriterASCII_write_int(Len(value))
        \o WriterASCII_writeline(
              Flatten([ i \in DOMAIN value |->
                          IF IsPrintable(value[i]) THEN << value[i] >>
                          ELSE OctalEscape(value[i]) ]))

-----------------------------------------------------------------------------
(* The order in which the format driver emits the nodes of a graph: a      *)
(* pairlist cell's tag, car, cdr; a vector's elements in order, then its   *)
(* attributes.  A back-reference has no children: its target is not owned. *)

Children(n) ==
    CASE n.info.type \in {"LIST", "LANG"} -> n.attributes \o n.tag \o n.value
      [] n.info.type \in {"VEC", "EXPR", "STR", "ALTREP"} ->
            n.value \o n.attributes
      [] n.info.type \in {"INT", "REAL", "LGL", "CPLX"} -> n.attributes
      [] OTHER -> <<>>

\* the nodes a node owns: a symbol owns its name element
Owned(n) == IF n.info.type = "SYM" THEN n.value ELSE Children(n)

\* the nodes of stack and their descendants, in emission order
RECURSIVE Nodes(_)
Nodes(stack) ==
    IF Len(stack) = 0 THEN <<>>
    ELSE << stack[1] >> \o Nodes(Owned(stack[1]) \o Tail(stack))

-----------------------------------------------------------------------------
(* The format driver over the codecs.  RData is [versions, extra, object]. *)
(* The parser reads streams that hold the versions header and one object   *)
(* made of NILVALUE, INT, CHAR and STR nodes without attributes or tags;   *)
(* the unparser also writes SYM, LIST, VEC, REAL and ALTREP nodes.         *)

TypeCode ==
    [ NILVALUE |-> 254, CHAR |-> 9, INT |-> 13, STR |-> 16, SYM |-> 1,
      LIST |-> 2, REAL |-> 14, VEC |-> 19, ALTREP |-> 238 ]
TypeOfCode(code) ==
    CASE code = 254 -> "NILVALUE" [] code = 9 -> "CHAR" [] code = 13 -> "INT"
      [] code = 16 -> "STR" [] OTHER -> ""

\* CharFlags, the gp bits of a CHAR node
GpBits(gp) ==
    (IF "UTF8" \in gp THEN 8 ELSE 0) + (IF "ASCII" \in gp THEN 64 ELSE 0)
GpOfBits(bits) ==
    (IF (bits \div 8) % 2 = 1 THEN {"UTF8"} ELSE {})
        \cup (IF (bits \div 64) % 2 = 1 THEN {"ASCII"} ELSE {})

\* the node header: type, is_object, has_attributes, has_tag, gp
Flags(node) ==
    TypeCode[node.info.type]
        + (IF node.info.object THEN 256 ELSE 0)
        + (IF node.info.attributes THEN 512 ELSE 0)
        + (IF node.info.tag THEN 1024 ELSE 0)
        + 4096 * GpBits(node.info.gp)

\* a length-prefixed string that may be missing: length -1
OptionalStringCalls(value) ==
    IF value = NoneOpt THEN << [ call |-> "int", value |-> -1 ] >>
    ELSE << [ call |-> "string", value |-> value[1] ] >>

\* the calls the unparser makes on its writer for one object
RECURSIVE ObjectCalls(_)
ObjectCalls(node) ==
    << [ call |-> "int", value |-> Flags(node) ] >>
    \o CASE node.info.type = "INT" ->
                << [ call |-> "nullable_int_array", value |-> node.value ] >>
         [] node.info.type = "CHAR" -> OptionalStringCalls(node.value)
         [] node.info.type \in {"STR", "VEC"} ->
                << [ call |-> "int", value |-> Len(node.value) ] >>
                \o Flatten([ i \in DOMAIN node.value |->
                                ObjectCalls(node.value[i]) ])
         [] node.info.type = "REAL" ->
                << [ call |-> "double_array", value |-> node.value.data ] >>
         [] node.info.type \in {"SYM", "LIST", "ALTREP"} ->
                Flatten([ i \in DOMAIN Owned(node) |->
                            ObjectCalls(Owned(node)[i]) ])
         [] OTHER -> <<>>

\* What a format version cannot hold: below format 3, an encoding label and
\* an ALTREP node.
HasAltrep(object) ==
    \E i \in DOMAIN Nodes(<< object >>) :
        Nodes(<< object >>)[i].info.type = "ALTREP"

IllegalAtFormat(r_data) ==
    /\ r_data.versions.format < 3
    /\ (r_data.extra.encoding # NoneOpt \/ HasAltrep(r_data.object))

\* Unparser.unparse_r_data: magic, versions, encoding from format 3, object
UnparserCalls(r_data) ==
    << [ call |-> "magic", value |-> 0 ],
       [ call |-> "int", value |-> r_data.versions.format ],
       [ call |-> "int", value |-> r_data.versions.serialized ],
       [ call |-> "int", value |-> r_data.versions.minimum ] >>
    \o (IF r_data.versions.format >= 3
        THEN OptionalStringCalls(r_data.extra.encoding)
        ELSE <<>>)
    \o ObjectCalls(r_data.object)

\* Writer.write_nullable_int_array of the text writer: one value per line
WriterASCII_write_nullable_int_array(array) ==
    WriterASCII_write_int(Len(array.data))
        \o Flatten([ i \in DOMAIN array.data |->
                        WriterASCII_write_nullable_int(
                            IF array.mask[i] THEN NoneOpt
                            ELSE Some(array.data[i])) ])

WriterXDR_call(c) ==
    CASE c.call = "magic" -> WriterXDR_write_magic
      [] c.call = "int" -> WriterXDR_write_int(c.value)
      [] c.call = "nullable_int_array" ->
            WriterXDR_write_nullable_int_array(c.value)
      [] c.call = "string" -> WriterXDR_write_string(c.value)
      [] c.call = "double_array" -> WriterXDR_write_double_array(c.value)

\* Writer.write_double_array of the text writer: one value per line
WriterASCII_write_double_array(values) ==
    WriterASCII_write_int(Len(values))
        \o Flatten([ i \in DOMAIN values |->
                        WriterASCII_write_double(values[i]) ])

WriterASCII_call(c) ==
    CASE c.call = "magic" -> WriterASCII_write_magic
      [] c.call = "int" -> WriterASCII_write_int(c.value)
      [] c.call = "nullable_int_array" ->
            WriterASCII_write_nullable_int_array(c.value)
      [] c.call = "string" -> WriterASCII_write_string(c.value)
      [] c.call = "double_array" -> WriterASCII_write_double_array(c.value)

\* A serialized stream as the format defines it.  In the text format a
\* string is one line: a byte is written as itself when it is a graphic
\* character other than the backslash, as a 3-digit octal escape otherwise.
IsGraphic(c) == c \in 33..126 /\ c # Backslash

StreamString(value) ==
    WriterASCII_write_int(Len(value))
        \o WriterASCII_writeline(
              Flatten([ i \in DOMAIN value |->
                          IF IsGraphic(value[i]) THEN << value[i] >>
                          ELSE OctalEscape(value[i]) ]))

StreamItem(fmt, c) ==
    IF fmt = "xdr" THEN WriterXDR_call(c)
    ELSE IF c.call = "string" THEN StreamString(c.value)
    ELSE WriterASCII_call(c)

\* what a writer of kind makes of the calls
Written(kind, made) ==
    Flatten([ i \in DOMAIN made |->
                CASE kind = "WriterASCII" -> WriterASCII_call(made[i])
                  [] kind = "WriterXDR" -> WriterXDR_call(made[i])
                  [] kind = "ascii" -> StreamItem("ascii", made[i])
                  [] kind = "xdr" -> StreamItem("xdr", made[i]) ])

Unparsed(bytes) == [ ok |-> TRUE, err |-> "", bytes |-> bytes ]

NotUnparsed(err) == [ ok |-> FALSE, err |-> err, bytes |-> <<>> ]

\* Unparser(fileobj).unparse_r_data(r_data): what fileobj receives.  A
\* feature that the format version cannot hold is refused before the magic
\* is written; the second operator refuses nothing.
unparse_r_data_ungated(kind, r_data) ==
    Unparsed(Written(kind, UnparserCalls(r_data)))

unparse_r_data(kind, r_data) ==
    IF IllegalAtFormat(r_data) THEN NotUnparsed("NotImplementedError")
    ELSE Unparsed(Written(kind, UnparserCalls(r_data)))

\* unparse_data(fileobj, r_data, file_format=...): the Unparser is chosen
\* by file_format, then unparses
unparse_data(r_data, fmt) ==
    IF fmt = "ascii" THEN unparse_r_data("WriterASCII", r_data)
    ELSE IF fmt = "xdr" THEN unparse_r_data("WriterXDR", r_data)
    ELSE NotUnparsed("ValueError")

\* unparse_file(path, r_data, file_format=..., compression=...): the file at
\* path afterwards.  open(path, "wb") creates or truncates the file; bytes
\* are what the opened file object was given.
Compressions == { "none", "bzip2", "gzip", "xz" }

Opened(compression, u) ==
    [ ok |-> u.ok, err |-> u.err,
      destination |-> [ exists |-> TRUE, compression |-> compression,
                        bytes |-> u.bytes ] ]

\* unparse_file without the test of the compression name
unparse_file_any_compression(dest, r_data, fmt, compression) ==
    Opened(compression, unparse_data(r_data, fmt))

unparse_file(dest, r_data, fmt, compression) ==
    IF compression \in Compressions
    THEN Opened(compression, unparse_data(r_data, fmt))
    ELSE [ ok |-> FALSE, err |-> "ValueError", destination |-> dest ]

SerializedStream(fmt, r_data) == Written(fmt, UnparserCalls(r_data))

\* the primitives of the parser of a wire format
parse_int(fmt, f, pos) ==
    IF fmt = "xdr" THEN ParserXDR_parse_int(f, pos)
    ELSE ParserASCII_parse_int(f, pos)

parse_string(fmt, f, pos, length) ==
    IF fmt = "xdr" THEN ParserXDR_parse_string(f, pos, length)
    ELSE ParserASCII_parse_string(f, pos, length)

\* Parser.parse_nullable_int_array of the text parser: one value per line
RECURSIVE ParseLines(_, _, _)
LinesCons(head, rest) ==
    IF ~rest.ok THEN rest ELSE Parsed(<< head >> \o rest.value, rest.pos)
LinesHead(f, n, head) ==
    IF ~head.ok THEN head
    ELSE LinesCons(IF head.value = NoneOpt THEN R_INT_NA ELSE head.value[1],
                   ParseLines(f, head.pos, n - 1))
ParseLines(f, pos, n) ==
    IF n <= 0 THEN Parsed(<<>>, pos)
    ELSE LinesHead(f, n, ParserASCII_parse_nullable_int(f, pos))

ArrayOfLengthASCII(f, length) ==
    IF ~length.ok THEN length
    ELSE MaskedResult(ParseLines(f, length.pos, length.value[1]))

ParserASCII_parse_nullable_int_array(f, pos) ==
    ArrayOfLengthASCII(f, ParserASCII_parse_int(f, pos))

parse_nullable_int_array(fmt, f, pos) ==
    IF fmt = "xdr" THEN ParserXDR_parse_nullable_int_array(f, pos)
    ELSE ParserASCII_parse_nullable_int_array(f, pos)

\* the node the parser makes of a header and a payload
ParsedNode(flags, value) ==
    MkRObject(TypeOfCode(flags % 256), value, (flags \div 256) % 2 = 1,
              NoneOpt, NoneOpt,
              IF flags % 256 = 9 THEN GpOfBits((flags \div 4096) % 65536)
              ELSE GpZero,
              NoReference)

WithNode(flags, payload) ==
    IF ~payload.ok THEN payload
    ELSE Parsed(ParsedNode(flags, payload.value), payload.pos)

SomeString(str) ==
    IF ~str.ok THEN str ELSE Parsed(Some(str.value), str.pos)

\* a length-prefixed string: length -1 is the missing string
OptionalString(fmt, f, length) ==
    IF ~length.ok THEN length
    ELSE IF length.value[1] = -1 THEN Parsed(NoneOpt, length.pos)
    ELSE SomeString(parse_string(fmt, f, length.pos, length.value[1]))

\* Parser.parse_R_object, and its loop over the elements of a vector
RECURSIVE parse_R_object(_, _, _), ParseElements(_, _, _, _)
ElementsCons(head, rest) ==
    IF ~rest.ok THEN rest
    ELSE Parsed(<< head.value >> \o rest.value, rest.pos)
ElementsHead(fmt, f, n, head) ==
    IF ~head.ok THEN head
    ELSE ElementsCons(head, ParseElements(fmt, f, head.pos, n - 1))
ParseElements(fmt, f, pos, n) ==
    IF n <= 0 THEN Parsed(<<>>, pos)
    ELSE ElementsHead(fmt, f, n, parse_R_object(fmt, f, pos))
Payload(fmt, f, flags, length) ==
    IF (flags.value[1] \div 512) % 4 # 0
    THEN ParseError("NotImplementedError", flags.pos)
    ELSE CASE flags.value[1] % 256 = 254 -> Parsed(NoneOpt, flags.pos)
           [] flags.value[1] % 256 = 13 ->
                parse_nullable_int_array(fmt, f, flags.pos)
           [] flags.value[1] % 256 = 9 -> OptionalString(fmt, f, length)
           [] flags.value[1] % 256 = 16 ->
                IF ~length.ok THEN length
                ELSE ParseElements(fmt, f, length.pos, length.value[1])
           [] OTHER -> ParseError("NotImplementedError", flags.pos)
ObjectAt(fmt, f, flags) ==
    IF ~flags.ok THEN flags
    ELSE WithNode(flags.value[1],
                  Payload(fmt, f, flags, parse_int(fmt, f, flags.pos)))
parse_R_object(fmt, f, pos) == ObjectAt(fmt, f, parse_int(fmt, f, pos))

\* the versions, and from format 3 the encoding
HeaderOf(versions, encoding) ==
    IF ~encoding.ok THEN encoding
    ELSE Parsed([ versions |-> versions,
                  extra |-> [ encoding |-> encoding.value ] ], encoding.pos)
HeaderMinimum(fmt, f, format, serialized, minimum) ==
    IF ~minimum.ok THEN minimum
    ELSE HeaderOf([ format |-> format, serialized |-> serialized,
                    minimum |-> minimum.value[1] ],
                  IF format < 3 THEN Parsed(NoneOpt, minimum.pos)
                  ELSE OptionalString(fmt, f,
                                      parse_int(fmt, f, minimum.pos)))
HeaderSerialized(fmt, f, format, serialized) ==
    IF ~serialized.ok THEN serialized
    ELSE HeaderMinimum(fmt, f, format, serialized.value[1],
                       parse_int(fmt, f, serialized.pos))
HeaderFormat(fmt, f, format) ==
    IF ~format.ok THEN format
    ELSE HeaderSerialized(fmt, f, format.value[1],
                          parse_int(fmt, f, format.pos))
ParseHeader(fmt, f, pos) == HeaderFormat(fmt, f, parse_int(fmt, f, pos))

\* Parser.parse_all: the header, then the one top-level object
WithObject(header, object) ==
    IF ~object.ok THEN object
    ELSE Parsed([ versions |-> header.value.versions,
                  extra |-> header.value.extra,
                  object |-> object.value ], object.pos)
AfterHeader(fmt, f, header) ==
    IF ~header.ok THEN header
    ELSE WithObject(header, parse_R_object(fmt, f, header.pos))
Parser_parse_all(fmt, f, pos) == AfterHeader(fmt, f, ParseHeader(fmt, f, pos))

\* assert self.file.read(1) == b'' (xdr), == '' (ascii)
AssertAtEnd(f, rdata) ==
    IF ~rdata.ok THEN rdata
    ELSE IF Len(Read(f, rdata.pos, 1)) # 0
    THEN ParseError("AssertionError", rdata.pos + 1)
    ELSE rdata

\* the check of the end of the file left out
ParserXDR_parse_all_unchecked(f, pos) == Parser_parse_all("xdr", f, pos)

ParserXDR_parse_all(f, pos) == AssertAtEnd(f, Parser_parse_all("xdr", f, pos))

ParserASCII_parse_all(f, pos) ==
    AssertAtEnd(f, Parser_parse_all("ascii", f, pos))

\* parse_data: the parser is chosen by the magic at the head of the data
parse_data(f) ==
    IF Read(f, 0, 2) = WriterXDR_write_magic THEN ParserXDR_parse_all(f, 2)
    ELSE IF Read(f, 0, 2) = WriterASCII_write_magic
    THEN ParserASCII_parse_all(f, 2)
    ELSE ParseError("ValueError", 0)

-----------------------------------------------------------------------------
(* Inputs of the codecs.                                                   *)

MaxBytes == 2
MaxArray == 2
MaxCut == 3

\* bytes of a string: NUL, line feed, "A", backslash, "n", 0xFF
ByteValues == {0, LF, 65, Backslash, 110, 255}
ByteStrings == SeqsUpTo(ByteValues, MaxBytes)

\* stored values of an integer array; an array has any mask of its length
StoredValues == {R_INT_NA, -1, 7}
StoredSeqs == SeqsUpTo(StoredValues, MaxArray)
MaskSeqs == SeqsUpTo(BOOLEAN, MaxArray)

\* the elements of the integer arrays in streams
StreamValues == SeqsUpTo({R_INT_NA, 7}, MaxArray)

CharNode(value, gp) == Plain("CHAR", value, FALSE, NoneOpt, NoneOpt, gp)
IntNode(array) == Plain("INT", array, FALSE, NoneOpt, NoneOpt, GpZero)
StrNode(elements) == Plain("STR", elements, FALSE, NoneOpt, NoneOpt, GpZero)

ObjectKinds == {"nil", "na", "empty", "pair", "int", "char", "str"}

\* "compact_intseq" and "base"
NameCompactIntseq ==
    << 99, 111, 109, 112, 97, 99, 116, 95, 105, 110, 116, 115, 101, 113 >>
NameBase == << 98, 97, 115, 101 >>

SymNode(name) ==
    Plain("SYM", << CharNode(Some(name), GpAscii) >>, FALSE, NoneOpt, NoneOpt,
          GpZero)

\* the ALTREP node of a unit-step range, as rangeindex_constructor builds it
AltrepNode(length, start) ==
    Plain("ALTREP",
          << BuildList(<< [ tag |-> NoneOpt, car |-> SymNode(NameCompactIntseq) ],
                          [ tag |-> NoneOpt, car |-> SymNode(NameBase) ],
                          [ tag |-> NoneOpt,
                            car |-> IntNode([ data |-> << RObjectType_INT_value >>,
                                              mask |-> << FALSE >> ]) ] >>),
             Plain("REAL", [ data |-> << length, start, 1 >>,
                             mask |-> << FALSE, FALSE, FALSE >> ],
                   FALSE, NoneOpt, NoneOpt, GpZero),
             NilValue >>,
          FALSE, NoneOpt, NoneOpt, GpZero)

\* the object of a kind, made of a byte string and of array elements
CodecObject(kind, bytes, values) ==
    CASE kind = "nil" -> NilValue
      [] kind = "na" -> CharNode(NoneOpt, GpZero)
      [] kind = "empty" -> StrNode(<<>>)
      [] kind = "pair" ->
            StrNode(<< CharNode(Some(bytes), GpAscii),
                       CharNode(NoneOpt, GpZero) >>)
      [] kind = "int" -> IntNode(MaskedArray(values))
      [] kind = "char" -> CharNode(Some(bytes), {"UTF8"})
      [] kind = "str" -> StrNode(<< CharNode(Some(bytes), {"UTF8"}) >>)
      [] kind = "altrep" -> AltrepNode(3, 1)
      [] kind = "vec" ->
            Plain("VEC", << IntNode(MaskedArray(<< 7 >>)), AltrepNode(2, 0) >>,
                  FALSE, NoneOpt, NoneOpt, GpZero)

\* each object is chosen once
ObjectChoices ==
    { c \in ObjectKinds \X ByteStrings \X StreamValues :
        /\ c[1] \in {"nil", "na", "empty", "int"} => c[2] = <<>>
        /\ c[1] = "pair" => c[2] = <<65>>
        /\ c[1] # "int" => c[3] = <<>> }

\* the objects given to the unparser: those, and two that hold an ALTREP
UnparseChoices ==
    ObjectChoices \cup { << "altrep", <<>>, <<>> >>, << "vec", <<>>, <<>> >> }

\* arguments of write_nullable_int: None, and 32-bit integers with the two
\* ends of their range
NullableInts ==
    { NoneOpt } \cup { Some(v) : v \in { R_INT_NA, -2147483647, -1, 0, 7,
                                        2147483647 } }

ArrayChoices == { c \in StoredSeqs \X MaskSeqs : Len(c[1]) = Len(c[2]) }

\* "UTF-8"
EncodingName == <<85, 84, 70, 45, 56>>

CodecRData(fv, object) ==
    [ versions |-> [ format |-> fv,
                     serialized |-> DEFAULT_R_VERSION_SERIALIZED,
                     minimum |-> R_MINIMUM_VERSIONS(fv) ],
      extra |-> [ encoding |-> IF fv >= 3 THEN Some(EncodingName) ELSE NoneOpt ],
      object |-> object ]

\* RData with or without an encoding label, whatever the format version
LabelledRData(fv, labelled, object) ==
    [ versions |-> [ format |-> fv,
                     serialized |-> DEFAULT_R_VERSION_SERIALIZED,
                     minimum |-> R_MINIMUM_VERSIONS(fv) ],
      extra |-> [ encoding |-> IF labelled THEN Some(EncodingName)
                               ELSE NoneOpt ],
      object |-> object ]

WireFormats == {"xdr", "ascii"}

\* file_format arguments: the two formats and a name that is neither
FormatNames == WireFormats \cup { "json" }

\* compression arguments: the four names, an unknown name, and None
CompressionNames == Compressions \cup { "zip", "None" }

-----------------------------------------------------------------------------
(* Writers and parsers on one file.                                        *)

NoWrote == [ kind |-> "", value |-> NoneOpt, cut |-> 0, trailing |-> 0 ]
NoParsed == [ op |-> "", start |-> 0, ok |-> TRUE, err |-> "",
              value |-> NoneOpt, pos |-> 0 ]
NoOutput == [ done |-> FALSE, ok |-> TRUE, err |-> "", bytes |-> <<>> ]
NoDestination == [ exists |-> FALSE, compression |-> "", bytes |-> <<>> ]
NoSessions == <<>>

OutputOf(u) ==
    [ done |-> TRUE, ok |-> u.ok, err |-> u.err, bytes |-> u.bytes ]

Intact == wrote.cut = 0 /\ wrote.trailing = 0

NewFile(fmt, kind, value, contents) ==
    /\ file_format' = fmt
    /\ file' = contents
    /\ wrote' = [ kind |-> kind, value |-> value, cut |-> 0, trailing |-> 0 ]
    /\ parsed' = NoParsed
    /\ output' = NoOutput
    /\ UNCHANGED <<convVars, built, destination, sessions>>

\* a serialized stream is put in the file; a behaviour follows one file
LoadStream(fmt, r_data) ==
    /\ wrote.kind = ""
    /\ NewFile(fmt, "stream", r_data, SerializedStream(fmt, r_data))

\* unparse_data(file, r_data, file_format=fmt)
UnparseData(fmt, r_data) ==
    /\ wrote.kind = ""
    /\ NewFile(fmt, "unparse_data", r_data, unparse_data(r_data, fmt).bytes)

\* WriterXDR(file).write_nullable_int_array(array)
WriteNullableIntArray(array) ==
    /\ wrote.kind = ""
    /\ NewFile("xdr", "write_nullable_int_array", array,
               WriterXDR_write_nullable_int_array(array))

\* WriterXDR(file).write_string(value), WriterASCII(file).write_string(value)
WriteString(fmt, value) ==
    /\ wrote.kind = ""
    /\ NewFile(fmt, "write_string", value,
               IF fmt = "xdr" THEN WriterXDR_write_string(value)
               ELSE WriterASCII_write_string(value))

\* WriterXDR(file).write_nullable_int(value), and of WriterASCII
WriteNullableInt(fmt, value) ==
    /\ wrote.kind = ""
    /\ NewFile(fmt, "write_nullable_int", value,
               IF fmt = "xdr" THEN WriterXDR_write_nullable_int(value)
               ELSE WriterASCII_write_nullable_int(value))

\* the file loses its last n items
Cut(n) ==
    /\ wrote.kind # "" /\ Intact /\ n <= Len(file)
    /\ file' = SubSeq(file, 1, Len(file) - n)
    /\ wrote' = [ wrote EXCEPT !.cut = n ]
    /\ parsed' = NoParsed
    /\ output' = NoOutput
    /\ UNCHANGED <<file_format, convVars, built, destination, sessions>>

\* one more item follows the contents
AppendTrailing(c) ==
    /\ wrote.kind # "" /\ Intact
    /\ file' = Append(file, c)
    /\ wrote' = [ wrote EXCEPT !.trailing = 1 ]
    /\ parsed' = NoParsed
    /\ output' = NoOutput
    /\ UNCHANGED <<file_format, convVars, built, destination, sessions>>

ParsedBy(op, r) ==
    /\ parsed' = [ op |-> op, start |-> parsed.pos, ok |-> r.ok, err |-> r.err,
                   value |-> r.value, pos |-> r.pos ]
    /\ UNCHANGED <<file_format, file, wrote, output, convVars, built,
                   destination, sessions>>

\* parse_data(file contents, expand_altrep=False)
ParseData ==
    /\ wrote.kind \in {"stream", "unparse_data"}
    /\ parsed.op = ""
    /\ ParsedBy("parse_data", parse_data(file))

\* a parser made on a file that holds primitives only
OnPrimitives ==
    /\ wrote.kind \in {"write_string", "write_nullable_int_array",
                       "write_nullable_int"}
    /\ parsed.ok

ParseNullableInt ==
    /\ OnPrimitives
    /\ parsed.op = ""
    /\ ParsedBy("parse_nullable_int",
                IF file_format = "xdr"
                THEN ParserXDR_parse_nullable_int(file, parsed.pos)
                ELSE ParserASCII_parse_nullable_int(file, parsed.pos))

\* parse_string(length) with the length that was just read
ParseString ==
    /\ OnPrimitives
    /\ parsed.op = "parse_nullable_int" /\ parsed.value # NoneOpt
    /\ ParsedBy("parse_string",
                parse_string(file_format, file, parsed.pos, parsed.value[1]))

ParseNullableIntArray ==
    /\ OnPrimitives
    /\ parsed.op = "" /\ file_format = "xdr"
    /\ ParsedBy("parse_nullable_int_array",
                ParserXDR_parse_nullable_int_array(file, parsed.pos))

\* the parsed data are unparsed in the wire format they came in
WriteBack ==
    /\ parsed.op = "parse_data" /\ parsed.ok /\ ~output.done
    /\ output' = OutputOf(unparse_data(parsed.value, file_format))
    /\ UNCHANGED <<file_format, file, wrote, parsed, convVars, built,
                   destination, sessions>>

ConverterIdle ==
    /\ references = InitialReferences
    /\ format_version = 3
    /\ result = NoResult
    /\ calls = 0

CodecIdle ==
    /\ file_format = "xdr"
    /\ file = <<>>
    /\ wrote = NoWrote
    /\ parsed = NoParsed
    /\ output = NoOutput
    /\ destination = NoDestination

InitCodec ==
    ConverterIdle /\ built = NoBuilt /\ CodecIdle /\ sessions = NoSessions

NextCodec ==
    \/ /\ wrote.kind = ""
       /\ \E fmt \in WireFormats, fv \in {2, 3}, c \in ObjectChoices :
             LoadStream(fmt, CodecRData(fv, CodecObject(c[1], c[2], c[3])))
    \/ /\ wrote.kind = ""
       /\ \E fmt \in WireFormats, fv \in {2, 3}, c \in ObjectChoices :
             UnparseData(fmt, CodecRData(fv, CodecObject(c[1], c[2], c[3])))
    \/ /\ wrote.kind = ""
       /\ \E c \in ArrayChoices :
             WriteNullableIntArray([ data |-> c[1], mask |-> c[2] ])
    \/ /\ wrote.kind = ""
       /\ \E fmt \in WireFormats, value \in ByteStrings :
             WriteString(fmt, value)
    \/ /\ wrote.kind = ""
       /\ \E fmt \in WireFormats, value \in NullableInts :
             WriteNullableInt(fmt, value)
    \/ \E n \in 1..MaxCut : Cut(n)
    \/ \E c \in {0, LF} : AppendTrailing(c)
    \/ ParseData
    \/ ParseNullableInt
    \/ ParseString
    \/ ParseNullableIntArray
    \/ WriteBack

SpecCodec == InitCodec /\ [][NextCodec]_vars

-----------------------------------------------------------------------------
(* The entry points of the unparser, one call per behaviour: unparse_data  *)
(* on an empty stream, unparse_file on a path that may hold a file.        *)

Called(kind, fmt, value, u) ==
    /\ wrote' = [ kind |-> kind, value |-> value, cut |-> 0, trailing |-> 0 ]
    /\ file_format' = fmt
    /\ output' = [ done |-> TRUE, ok |-> u.ok, err |-> u.err, bytes |-> <<>> ]
    /\ UNCHANGED <<parsed, convVars, built, sessions>>

DataUnparsed(fmt, r_data, u) ==
    /\ file' = file \o u.bytes
    /\ Called("call_unparse_data", fmt, r_data, u)
    /\ UNCHANGED destination

\* unparse_data(file, r_data, file_format=fmt)
CallUnparseData(fmt, r_data) ==
    DataUnparsed(fmt, r_data, unparse_data(r_data, fmt))

FileUnparsed(fmt, r_data, compression, u) ==
    /\ destination' = u.destination
    /\ Called("call_unparse_file", fmt,
              [ r_data |-> r_data, compression |-> compression,
                before |-> destination ], u)
    /\ UNCHANGED file

\* unparse_file(path, r_data, file_format=fmt, compression=compression)
CallUnparseFile(fmt, compression, r_data) ==
    FileUnparsed(fmt, r_data, compression,
                 unparse_file(destination, r_data, fmt, compression))

\* a file of an earlier run at the path
OldFile == [ exists |-> TRUE, compression |-> "none", bytes |-> << 1 >> ]

InitUnparse ==
    /\ ConverterIdle /\ built = NoBuilt /\ sessions = NoSessions
    /\ file_format = "xdr" /\ file = <<>> /\ wrote = NoWrote
    /\ parsed = NoParsed /\ output = NoOutput
    /\ destination \in { NoDestination, OldFile }

NextUnparse ==
    \/ /\ wrote.kind = ""
       /\ \E fmt \in FormatNames, fv \in {2, 3}, labelled \in BOOLEAN,
             c \in UnparseChoices :
             CallUnparseData(fmt, LabelledRData(fv, labelled,
                                               CodecObject(c[1], c[2], c[3])))
    \/ /\ wrote.kind = ""
       /\ \E fmt \in FormatNames, compression \in CompressionNames,
             fv \in {2, 3}, labelled \in BOOLEAN, c \in UnparseChoices :
             CallUnparseFile(fmt, compression,
                             LabelledRData(fv, labelled,
                                           CodecObject(c[1], c[2], c[3])))

SpecUnparse == InitUnparse /\ [][NextUnparse]_vars

-----------------------------------------------------------------------------
(* The symbols of a graph in the order in which the format driver emits    *)
(* them.                                                                   *)

\* The symbol literals and back-references of the nodes of stack and of
\* their descendants, in emission order.
RECURSIVE SymbolEvents(_)
SymbolEvents(stack) ==
    IF Len(stack) = 0 THEN <<>>
    ELSE (IF stack[1].info.type \in {"SYM", "REF"} THEN << stack[1] >> ELSE <<>>)
         \o SymbolEvents(Children(stack[1]) \o Tail(stack))

IsLiteral(n) == n.info.type = "SYM"
IsBackReference(n) == n.info.type = "REF"
SymbolName(n) == n.value[1].value[1]

\* The graph the last call returned, as a stack of at most one node.
Returned_graph == IF result.ok THEN result.node ELSE <<>>

\* positions of the symbol literals among the events
LiteralPositions(ev) == { i \in 1..Len(ev) : IsLiteral(ev[i]) }
LiteralRank(ev, i) == Cardinality({ j \in LiteralPositions(ev) : j <= i })

-----------------------------------------------------------------------------
(* C2. Reference determinism: a request for a symbol name that is not in   *)
(* the table returns a literal symbol node and records it (under id 1 when *)
(* it is the first symbol of the session); a request for a name that is in *)
(* the table returns a back-reference with the recorded id that points at  *)
(* the recorded literal, and records nothing.                              *)

IsSymCall == result'.op = "convert_to_r_sym" /\ calls' = calls + 1

C2_SymStep ==
    IsSymCall =>
        LET name == result'.arg
            node == result'.node[1]
        IN /\ result'.ok
           /\ IF InReferences(references, name)
              THEN /\ IsBackReference(node)
                   /\ node.info.reference = LookupReference(references, name)[1]
                   /\ node.info.reference >= 1
                   /\ node.referenced_object
                         = LookupReference(references, name)[2]
                   /\ IsLiteral(node.referenced_object[1])
                   /\ SymbolName(node.referenced_object[1]) = name
                   /\ references' = references
              ELSE /\ IsLiteral(node)
                   /\ SymbolName(node) = name
                   /\ node.info.reference = 0
                   /\ Len(references') = Len(references) + 1
                   /\ references'[Len(references')]
                         = [ key |-> Some(name), id |-> Len(references),
                             node |-> Some(node) ]
                   /\ (Len(references) = 1
                         => references'[Len(references')].id = 1)

C2_ReferenceDeterminism == [][C2_SymStep]_vars

\* "names" requested twice in a new session: a literal, then a
\* back-reference to id 1.
C2_Witness ==
    /\ calls = 2
    /\ result.op = "convert_to_r_sym" /\ result.arg = "names"
    /\ IsBackReference(result.node[1])
    /\ result.node[1].info.reference = 1
    /\ Len(references) = 2

-----------------------------------------------------------------------------
(* C3. Reference table ids: id 0 belongs to the "no reference" entry only, *)
(* the k-th name interned has id k (ids 1..n, no gap, no duplicate), each  *)
(* entry holds the literal symbol of its name, and no step of a converter  *)
(* removes, renumbers or rebinds an entry, a failing call included.        *)

C3_Table ==
    /\ Len(references) >= 1
    /\ references[1] = [ key |-> NoneOpt, id |-> 0, node |-> NoneOpt ]
    /\ \A i \in 2..Len(references) :
          /\ references[i].key # NoneOpt
          /\ references[i].id = i - 1
          /\ references[i].node # NoneOpt
          /\ IsLiteral(references[i].node[1])
          /\ SymbolName(references[i].node[1]) = references[i].key[1]
    /\ \A i, j \in 1..Len(references) :
          i # j => /\ references[i].key # references[j].key
                   /\ references[i].id # references[j].id

\* calls' = 0 is the construction of another converter
C3_Step ==
    calls' # 0 =>
        /\ Len(references') >= Len(references)
        /\ \A i \in 1..Len(references) : references'[i] = references[i]

C3_ReferenceIds == [](C3_Table) /\ [][C3_Step]_vars

\* a call that failed after it had interned symbols
C3_Witness ==
    /\ calls = 1 /\ ~result.ok /\ result.op = "convert_to_r_object"
    /\ Len(references) = 3

-----------------------------------------------------------------------------
(* C4. Write order: in the graph a call returns, the k-th literal symbol   *)
(* in emission order is the node registered under id k, and a              *)
(* back-reference with id k comes after the literal registered under id k. *)

OrderedFrom(ev, base) ==
    /\ \A i \in LiteralPositions(ev) :
          LET k == base + LiteralRank(ev, i)
          IN /\ k + 1 <= Len(references)
             /\ references[k + 1].id = k
             /\ references[k + 1].node = Some(ev[i])
    /\ \A i \in 1..Len(ev) :
          IsBackReference(ev[i]) =>
              \E j \in 1..(i - 1) :
                  /\ IsLiteral(ev[j])
                  /\ ev[i].referenced_object = Some(ev[j])
                  /\ ev[i].info.reference = base + LiteralRank(ev, j)

\* the claim, for every call
C4_WriteOrder == OrderedFrom(SymbolEvents(Returned_graph), 0)

\* the same for the first call made on a converter
C4_FirstCallOrder == calls = 1 => OrderedFrom(SymbolEvents(Returned_graph), 0)

-----------------------------------------------------------------------------
(* C5. The table is scoped to one call: every back-reference of the graph  *)
(* a call returns refers to a symbol literal of that graph.                *)

C5_TableScopedToCall ==
    LET ev == SymbolEvents(Returned_graph)
    IN \A i \in 1..Len(ev) :
          IsBackReference(ev[i]) =>
              \E j \in 1..Len(ev) :
                  IsLiteral(ev[j]) /\ ev[i].referenced_object = Some(ev[j])

\* the same for the first call made on a converter
C5_FirstCallScoped == calls = 1 => C5_TableScopedToCall

-----------------------------------------------------------------------------
(* C6. build_r_object returns a node exactly when "reference id is not 0", *)
(* "a referenced object is given" and "the type is REF" are all true or    *)
(* all false; the node it returns satisfies reference # 0 <=> type = REF   *)
(* <=> referenced_object present; otherwise no node is returned.           *)

C6_BackReferenceInvariant ==
    built.called =>
        LET hasId == built.reference[1] # 0
            hasTarget == built.reference[2] # NoneOpt
            isRef == built.r_type = "REF"
            accepted == \/ (hasId /\ hasTarget /\ isRef)
                        \/ (~hasId /\ ~hasTarget /\ ~isRef)
        IN /\ built.ok <=> accepted
           /\ built.ok =>
                /\ built.node # NoneOpt
                /\ (built.node[1].info.reference # 0)
                      <=> (built.node[1].info.type = "REF")
                /\ (built.node[1].info.type = "REF")
                      <=> (built.node[1].referenced_object # NoneOpt)
           /\ ~built.ok => built.node = NoneOpt /\ built.err = "AssertionError"

C6_Witness ==
    /\ built.called /\ built.ok
    /\ built.node[1].info.type = "REF" /\ built.node[1].info.reference = 2

-----------------------------------------------------------------------------
(* C7. Missing values in the binary codec.  write_nullable_int_array emits *)
(* the length, then 0x80000000 at every masked position and the stored     *)
(* value at every unmasked position; parse_nullable_int_array marks a      *)
(* position missing exactly when its encoded element is 0x80000000 and     *)
(* returns every other element as encoded.  Amended round trip: a position *)
(* reads back missing exactly when it was masked or stored -2^31, and      *)
(* every other position reads back its stored value.                       *)

Sentinel == <<128, 0, 0, 0>>

Element(i) == SubSeq(file, 4 * i + 1, 4 * i + 4)

ArrayWritten == wrote.kind = "write_nullable_int_array" /\ Intact

ArrayParsed == ArrayWritten /\ parsed.op = "parse_nullable_int_array"

C7_Emitted ==
    ArrayWritten =>
        /\ Len(file) = 4 + 4 * Len(wrote.value.data)
        /\ SubSeq(file, 1, 4) = Int32Bytes(Len(wrote.value.data))
        /\ \A i \in 1..Len(wrote.value.data) :
              IF wrote.value.mask[i] THEN Element(i) = Sentinel
              ELSE Int32Value(Element(i)) = wrote.value.data[i]

C7_Decoded ==
    ArrayParsed =>
        /\ parsed.ok /\ parsed.pos = Len(file)
        /\ Len(parsed.value.data) = Len(wrote.value.data)
        /\ Len(parsed.value.mask) = Len(wrote.value.data)
        /\ \A i \in 1..Len(wrote.value.data) :
              /\ parsed.value.mask[i] <=> (Element(i) = Sentinel)
              /\ ~parsed.value.mask[i]
                    => parsed.value.data[i] = Int32Value(Element(i))

\* the claim as stated: the same mask and the same values come back
C7_MissingValueFidelity ==
    /\ C7_Emitted
    /\ C7_Decoded
    /\ ArrayParsed =>
          \A i \in 1..Len(wrote.value.data) :
              /\ parsed.value.mask[i] = wrote.value.mask[i]
              /\ ~wrote.value.mask[i]
                    => parsed.value.data[i] = wrote.value.data[i]

C7_FidelityExceptStoredSentinel ==
    /\ C7_Emitted
    /\ C7_Decoded
    /\ ArrayParsed =>
          \A i \in 1..Len(wrote.value.data) :
              /\ parsed.value.mask[i]
                    <=> (wrote.value.mask[i] \/ wrote.value.data[i] = R_INT_NA)
              /\ ~parsed.value.mask[i]
                    => parsed.value.data[i] = wrote.value.data[i]

\* an array with a valid and a masked element, written and parsed back
C7_Witness ==
    /\ ArrayParsed /\ parsed.ok
    /\ wrote.value = [ data |-> <<7, -1>>, mask |-> <<FALSE, TRUE>> ]
    /\ parsed.value = [ data |-> <<7, 0>>, mask |-> <<FALSE, TRUE>> ]

-----------------------------------------------------------------------------
(* C8. Trailing data: when the header and the one top-level object have    *)
(* been consumed and an item remains in the file, parse_all raises         *)
(* (AssertionError) and returns nothing; it returns a result only with the *)
(* file exactly exhausted.  Both parsers.                                  *)

TrailingRule(inner) ==
    /\ (inner.ok /\ inner.pos < Len(file)) =>
          /\ ~parsed.ok
          /\ parsed.value = NoneOpt
          /\ parsed.err = "AssertionError"
    /\ parsed.ok =>
          /\ inner.ok
          /\ inner.pos = Len(file)
          /\ parsed.pos = Len(file)

C8_TrailingDataRejected ==
    parsed.op = "parse_data" =>
        TrailingRule(Parser_parse_all(file_format, file, 2))

\* a text stream followed by one more character is rejected
C8_Witness ==
    /\ parsed.op = "parse_data" /\ file_format = "ascii"
    /\ wrote.kind = "stream" /\ wrote.trailing = 1
    /\ ~parsed.ok /\ parsed.err = "AssertionError"

-----------------------------------------------------------------------------
(* C9. Truncation: a serialized stream that has lost items at its end is   *)
(* never parsed with success.                                              *)

C9_TruncationDetected ==
    (wrote.kind = "stream" /\ wrote.cut > 0 /\ parsed.op = "parse_data")
        => ~parsed.ok

-----------------------------------------------------------------------------
(* C10. Strings in the text format: write_string emits the length line and *)
(* exactly one more line, and parse_string at that line returns the bytes  *)
(* that were written.                                                      *)

C10_StringSymmetry ==
    (wrote.kind = "write_string" /\ file_format = "ascii" /\ Intact) =>
        /\ Cardinality({ i \in 1..Len(file) : file[i] = LF }) = 2
        /\ file[Len(file)] = LF
        /\ (/\ parsed.op = "parse_string"
            /\ parsed.start = Len(WriterASCII_write_int(Len(wrote.value))))
              => /\ parsed.ok
                 /\ parsed.value = wrote.value
                 /\ parsed.pos = Len(file)

-----------------------------------------------------------------------------
(* C1. Round trip: a serialized stream is parsed with success, and         *)
(* unparsing the parsed data in the same wire format gives the stream      *)
(* back, item for item.                                                    *)

C1_RoundTrip ==
    (wrote.kind = "stream" /\ Intact) =>
        /\ parsed.op = "parse_data" => parsed.ok
        /\ output.done => (output.ok /\ output.bytes = file)

-----------------------------------------------------------------------------
IsDataCall == result.op = "convert_to_r_data" /\ result.ok

-----------------------------------------------------------------------------
(* C11. Version legality of the converter's output: the RData that         *)
(* convert_to_r_data returns carries an encoding label exactly when the    *)
(* format version is at least 3, holds no ALTREP node when the format      *)
(* version is below 3, records the converter's format version and has      *)
(* minimum reader version 0x20300 for format 2 and 0x30500 for format 3.   *)

C11_VersionLegality ==
    IsDataCall =>
        LET nodes == Nodes(result.node)
            versions == result.versions[1]
        IN /\ (result.extra[1].encoding # NoneOpt) <=> (format_version >= 3)
           /\ format_version < 3 =>
                \A i \in 1..Len(nodes) : nodes[i].info.type # "ALTREP"
           /\ versions.format = format_version
           /\ format_version = 2 => versions.minimum = 2 * 65536 + 3 * 256
           /\ format_version = 3 => versions.minimum = 3 * 65536 + 5 * 256

\* a unit-step range converted at format 2: a plain integer vector, no label
C11_Witness ==
    /\ IsDataCall /\ format_version = 2
    /\ result.arg = "rds"
    /\ result.node[1].info.type = "INT"
    /\ result.node[1].value.data = << 1, 2, 3 >>
    /\ result.extra[1].encoding = NoneOpt

-----------------------------------------------------------------------------
(* C12. Version gating on unparse: unparse_data in a known wire format     *)
(* raises NotImplementedError and writes nothing when the data have format *)
(* version 2 and hold an ALTREP node or an encoding label; with format     *)
(* version 3 the same object and label are unparsed with success.          *)

IsUnparseDataCall ==
    wrote.kind = "call_unparse_data" /\ file_format \in WireFormats

C12_VersionGating ==
    IsUnparseDataCall =>
        LET r_data == wrote.value
            gated == \/ HasAltrep(r_data.object)
                     \/ r_data.extra.encoding # NoneOpt
        IN /\ (r_data.versions.format = 2 /\ gated) =>
                (~output.ok /\ output.err = "NotImplementedError" /\ file = <<>>)
           /\ r_data.versions.format = 3 => (output.ok /\ Len(file) > 0)

\* a vector that holds an ALTREP node, without a label, refused at format 2
C12_Witness ==
    /\ IsUnparseDataCall
    /\ wrote.value.versions.format = 2
    /\ wrote.value.extra.encoding = NoneOpt
    /\ wrote.value.object.info.type = "VEC"
    /\ HasAltrep(wrote.value.object)
    /\ ~output.ok

-----------------------------------------------------------------------------
(* C15. Invalid caller input is rejected before any output: unparse_file   *)
(* with a compression name other than none, bzip2, gzip and xz (None       *)
(* included) raises ValueError and leaves the path as it was, no file      *)
(* opened or created; unparse_data with a file format other than ascii and *)
(* xdr raises ValueError and writes no byte to the stream.                 *)

C15_InvalidInputRejected ==
    /\ (/\ wrote.kind = "call_unparse_file"
        /\ wrote.value.compression \notin { "none", "bzip2", "gzip", "xz" })
          => /\ ~output.ok /\ output.err = "ValueError"
             /\ destination = wrote.value.before
    /\ (/\ wrote.kind = "call_unparse_data"
        /\ file_format \notin { "ascii", "xdr" })
          => /\ ~output.ok /\ output.err = "ValueError"
             /\ file = <<>>

\* compression=None with no file at the path: an error, and still no file
C15_Witness ==
    /\ wrote.kind = "call_unparse_file"
    /\ wrote.value.compression = "None"
    /\ ~wrote.value.before.exists
    /\ ~output.ok
    /\ ~destination.exists

-----------------------------------------------------------------------------
(* C13. Compaction is exact and optional: rangeindex_constructor returns   *)
(* an ALTREP node exactly when the step is 1 and the format version is at  *)
(* least 3; its class descriptor is (compact_intseq, base, 13) and its     *)
(* state is (length, start, step), from which start + i * step, i below    *)
(* length, gives the elements of the range, the empty range included; in   *)
(* every other case it returns an INT vector of the elements in order.     *)

\* the elements of range(start, stop, step), from the definition of range
InRange(r, v) == IF r.step > 0 THEN v < r.stop ELSE v > r.stop
ElementCount(r) ==
    Cardinality({ i \in 0..(2 * MaxRange + 2) : InRange(r, r.start + i * r.step) })
ElementsOfRange(r) == [ i \in 1..ElementCount(r) |-> r.start + (i - 1) * r.step ]

\* the name of a symbol node or of the symbol a back-reference points at
ResolvedName(n) ==
    IF IsBackReference(n) THEN SymbolName(n.referenced_object[1])
    ELSE SymbolName(n)

IsCompactIntseq(n, r) ==
    /\ n.info.type = "ALTREP"
    /\ Len(n.value) = 3
    /\ LET info == n.value[1]
           second == info.value[2]
           third == second.value[2]
           state == n.value[2]
       IN /\ info.info.type = "LIST"
          /\ ResolvedName(info.value[1]) = "compact_intseq"
          /\ ResolvedName(second.value[1]) = "base"
          /\ third.value[1].info.type = "INT"
          /\ third.value[1].value.data = << 13 >>
          /\ third.value[2].info.type = "NILVALUE"
          /\ state.info.type = "REAL"
          /\ state.value.data = << ElementCount(r), r.start, r.step >>
          /\ [ i \in 1..state.value.data[1] |->
                 state.value.data[2] + (i - 1) * state.value.data[3] ]
                = ElementsOfRange(r)
    /\ n.value[3].info.type = "NILVALUE"

IsPlainIntegers(n, r) ==
    /\ n.info.type = "INT"
    /\ n.value.data = ElementsOfRange(r)
    /\ \A i \in DOMAIN n.value.mask : ~n.value.mask[i]
    /\ n.attributes = NoneOpt

IsRangeCall == result.op = "rangeindex_constructor"

C13_CompactionExact ==
    IsRangeCall =>
        /\ result.ok
        /\ IF result.arg.step = 1 /\ format_version >= 3
           THEN IsCompactIntseq(result.node[1], result.arg)
           ELSE IsPlainIntegers(result.node[1], result.arg)

\* the empty range 2..2 is compacted with length 0
C13_Witness ==
    /\ IsRangeCall /\ format_version = 3
    /\ result.arg = RangeIndex(2, 2, 1)
    /\ result.node[1].info.type = "ALTREP"
    /\ result.node[1].value[2].value.data = << 0, 2, 1 >>

-----------------------------------------------------------------------------
(* C14. Attribute-class detection: in every graph the converter returns, a *)
(* node that has an attributes pairlist has is_object set exactly when a   *)
(* cell of that pairlist is tagged with the symbol "class", as a literal   *)
(* or as a back-reference to it, at any position; a node without           *)
(* attributes has is_object clear.                                         *)

\* the cells of a pairlist, from its head to the nil node
RECURSIVE ChainCells(_)
ChainCells(n) ==
    IF n.info.type = "LIST" THEN << n >> \o ChainCells(n.value[2]) ELSE <<>>

HasClassCell(cells) ==
    \E i \in DOMAIN cells :
        cells[i].tag # NoneOpt /\ ResolvedName(cells[i].tag[1]) = "class"

ClassDetected(n) ==
    IF n.attributes = NoneOpt THEN ~n.info.object
    ELSE n.info.object <=> HasClassCell(ChainCells(n.attributes[1]))

C14_AttributeClassDetection ==
    LET nodes == Nodes(Returned_graph)
    IN \A i \in DOMAIN nodes : ClassDetected(nodes[i])

\* a data frame with a categorical column: "class" is the second of three
\* attribute cells and its tag is a back-reference
C14_Witness ==
    /\ result.ok /\ result.op = "convert_to_r_object"
    /\ result.node[1].info.type = "VEC"
    /\ result.node[1].info.object
    /\ result.node[1].attributes # NoneOpt
    /\ LET cells == ChainCells(result.node[1].attributes[1])
       IN /\ Len(cells) = 3
          /\ IsBackReference(cells[2].tag[1])
          /\ ResolvedName(cells[2].tag[1]) = "class"

-----------------------------------------------------------------------------
(* C16. Session independence: whatever the interleaving of the steps of    *)
(* two calls that each construct their own converter, a call that has      *)
(* ended returned the graph, and its converter holds the reference table,  *)
(* that the same call produces when it runs alone.                         *)

Ended(s) == ~s.ok \/ s.node # NoneOpt

\* the call run alone, from construction to return
Alone(s) == convert_to_r_object(FreshConverter(s.fv), PyList(s.input))

SameAsAlone(s, alone) ==
    /\ s.ok = alone.ok
    /\ s.err = alone.err
    /\ s.node = alone.node
    /\ s.self.references = alone.self.references

C16_SessionIndependence ==
    \A i \in DOMAIN sessions :
        Ended(sessions[i]) => SameAsAlone(sessions[i], Alone(sessions[i]))

\* both calls convert a range and both have ended: each graph holds the
\* literal symbols with ids 1 and 2 of its own table
C16_Witness ==
    /\ Len(sessions) = 2
    /\ \A i \in 1..2 :
          /\ sessions[i].fv = 3
          /\ sessions[i].input = << RangeIndex(1, 4, 1) >>
          /\ sessions[i].node # NoneOpt
          /\ Len(sessions[i].self.references) = 3
          /\ sessions[i].nodes[1].info.type = "ALTREP"
          /\ IsLiteral(sessions[i].nodes[1].value[1].value[1])

-----------------------------------------------------------------------------
(* C17. Scalar nullable integers in both wire formats.  A missing value is *)
(* written as the four bytes of -2^31 (xdr) and as the line "NA" (ascii),  *)
(* and parse_nullable_int returns missing only at those encodings.  The    *)
(* claim: write_nullable_int(v) followed by parse_nullable_int returns v.  *)
(* Amended: it returns v, except that in xdr the integer -2^31 is returned *)
(* as missing.                                                             *)

ScalarWritten == wrote.kind = "write_nullable_int" /\ Intact

ScalarParsed ==
    ScalarWritten /\ parsed.op = "parse_nullable_int" /\ parsed.start = 0

MissingEncoding ==
    IF file_format = "xdr" THEN << 128, 0, 0, 0 >> ELSE << 78, 65, 10 >>

C17_MissingEncoded ==
    /\ (ScalarWritten /\ wrote.value = NoneOpt) => file = MissingEncoding
    /\ (ScalarParsed /\ parsed.ok /\ parsed.value = NoneOpt)
          => file = MissingEncoding

C17_ScalarRoundTrip ==
    /\ C17_MissingEncoded
    /\ ScalarParsed => (parsed.ok /\ parsed.value = wrote.value)

C17_RoundTripExceptSentinel ==
    /\ C17_MissingEncoded
    /\ ScalarParsed =>
          /\ parsed.ok
          /\ parsed.pos = Len(file)
          /\ parsed.value =
                IF file_format = "xdr" /\ wrote.value = Some(R_INT_NA)
                THEN NoneOpt ELSE wrote.value

\* a missing value written in the text format and read back
C17_Witness ==
    /\ ScalarParsed /\ file_format = "ascii"
    /\ wrote.value = NoneOpt
    /\ parsed.ok /\ parsed.value = NoneOpt

-----------------------------------------------------------------------------
(* C18. Pairlist construction: build_r_list on n >= 1 entries returns a    *)
(* chain of exactly n LIST cells ended by one nil node; the i-th cell has  *)
(* the i-th value as car and has a tag, with has_tag set, exactly when the *)
(* i-th entry was a (tag, value) pair.  On no entry it raises ValueError   *)
(* and returns no node, and so do convert_to_r_attributes on an empty      *)
(* dictionary and the conversion of a language object of one element.      *)

IsChainOf(node, data) ==
    LET cells == ChainCells(node)
    IN /\ Len(cells) = Len(data)
       /\ \A i \in DOMAIN cells :
             /\ cells[i].value[1] = data[i].car
             /\ cells[i].tag = data[i].tag
             /\ cells[i].info.tag <=> (data[i].tag # NoneOpt)
             /\ cells[i].info.reference = 0
       /\ cells[Len(cells)].value[2].info.type = "NILVALUE"

Refused(r) == ~r.ok /\ r.err = "ValueError" /\ r.node = NoneOpt

C18_PairlistConstruction ==
    /\ built.op = "build_r_list" =>
          IF Len(built.data) = 0 THEN Refused(built)
          ELSE built.ok /\ IsChainOf(built.node[1], built.data)
    /\ result.op = "convert_to_r_attributes" =>
          IF Len(result.arg) = 0 THEN Refused(result) ELSE result.ok
    /\ result.op = "convert_to_r_object" =>
          IF Len(result.arg) = 1 THEN Refused(result) ELSE result.ok

\* three entries, the second one a pair
C18_Witness ==
    /\ built.op = "build_r_list" /\ built.ok
    /\ Len(built.data) = 3
    /\ built.data[1].tag = NoneOpt /\ built.data[2].tag # NoneOpt
    /\ Len(ChainCells(built.node[1])) = 3
    /\ ChainCells(built.node[1])[2].info.tag

-----------------------------------------------------------------------------
(* C19. Header/payload consistency: every node of every graph the          *)
(* converter returns, each of them made by build_r_object, has the header  *)
(* flag has_attributes set exactly when its attributes field is present    *)
(* and has_tag set exactly when its tag field is present; attributes, when *)
(* present, are a LIST node, and a tag, when present, is a symbol node or  *)
(* a back-reference to one.                                                *)

IsSymbolOrReference(n) ==
    \/ IsLiteral(n)
    \/ /\ IsBackReference(n)
       /\ n.referenced_object # NoneOpt
       /\ IsLiteral(n.referenced_object[1])

HeaderConsistent(n) ==
    /\ n.info.attributes <=> (n.attributes # NoneOpt)
    /\ n.info.tag <=> (n.tag # NoneOpt)
    /\ n.attributes # NoneOpt => n.attributes[1].info.type = "LIST"
    /\ n.tag # NoneOpt => IsSymbolOrReference(n.tag[1])

C19_HeaderPayloadConsistency ==
    LET nodes == Nodes(Returned_graph)
    IN \A i \in DOMAIN nodes : HeaderConsistent(nodes[i])

\* a graph with a node that has attributes, a cell tagged by a symbol, a cell
\* tagged by a back-reference, and a node with neither attributes nor tag
C19_Witness ==
    LET nodes == Nodes(Returned_graph)
    IN /\ \E i \in DOMAIN nodes :
             nodes[i].info.attributes /\ nodes[i].attributes # NoneOpt
       /\ \E i \in DOMAIN nodes :
             nodes[i].info.tag /\ nodes[i].tag # NoneOpt
                               /\ IsLiteral(nodes[i].tag[1])
       /\ \E i \in DOMAIN nodes :
             nodes[i].info.tag /\ nodes[i].tag # NoneOpt
                               /\ IsBackReference(nodes[i].tag[1])
       /\ \E i \in DOMAIN nodes :
             ~nodes[i].info.attributes /\ ~nodes[i].info.tag
                 /\ nodes[i].attributes = NoneOpt /\ nodes[i].tag = NoneOpt

====
